---- MODULE Spec2Model ----
(***************************************************************************)
(* Retailmind voice-webhook backend: the intent resolution and response    *)
(* pipeline (route_intent, the two classifiers, the five data operations   *)
(* and the speech generator).                                              *)
(*                                                                         *)
(* Text is a sequence of one-character strings, so that Python's substring *)
(* tests (`"s" in transcript`), str.lower() and the regular expressions    *)
(* of the rule-based classifier are computed on characters.                *)
(***************************************************************************)
EXTENDS Integers, Sequences, FiniteSets, TLC

VARIABLES
    pc,         \* where route_intent stands: "idle" (not called yet), "classify",
                \* "fallback", "lookup", "done" (it returned) or "raised" (it raised)
    request,    \* the OMIEventRequest: transcript, entities (a dict object), language
    received,   \* the entities mapping as the device sent it
    settings,   \* INTENT_PROVIDER and DEFAULT_LANGUAGE
    parsed,     \* the classifier's {"intent", "entities"}
    response,   \* the OMIResponse returned
    client,     \* supabase_client._supabase_client is not None
    tasks,      \* the rows of the task table
    trace,      \* the calls route_intent has made, in order
    heard,      \* what the primary classifier got from its collaborator
    met,        \* what the data operation met in the store (see the store section)
    op,         \* what the data operation handed back
    history,    \* the data operations called directly, in order: one record a call
    spoken,     \* generate_speech called directly: the language field as the event
                \* carried it, and what generate_speech handed back
    conn        \* the client singleton among concurrent requests: the handle held,
                \* the constructor's runs, and where each request stands

vars == <<pc, request, received, settings, parsed, response, client, tasks, trace,
          heard, met, op, history, spoken, conn>>

\* ------------------------------------------------------------------ bounds
\* Number of phrases a transcript of the classifier specification is built from.
MaxPhrases == 2

\* ------------------------------------------------------------------ text

Max(S) == CHOOSE x \in S : \A y \in S : y <= x

Min(S) == CHOOSE x \in S : \A y \in S : x <= y

UpperChars == <<"A","B","C","D","E","F","G","H","I","J","K","L","M",
                "N","O","P","Q","R","S","T","U","V","W","X","Y","Z">>

LowerChars == <<"a","b","c","d","e","f","g","h","i","j","k","l","m",
                "n","o","p","q","r","s","t","u","v","w","x","y","z">>

Digits == <<"0","1","2","3","4","5","6","7","8","9">>

IsUpper(c) == \E i \in 1..26 : UpperChars[i] = c

LowerChar(c) == IF IsUpper(c) THEN LowerChars[CHOOSE i \in 1..26 : UpperChars[i] = c] ELSE c

\* str.lower()
Lower(s) == [i \in 1..Len(s) |-> LowerChar(s[i])]

IsDigit(c) == \E i \in 1..10 : Digits[i] = c

\* \w of the re module (ASCII part)
IsWordChar(c) == IsDigit(c) \/ IsUpper(c) \/ c = "_" \/ (\E i \in 1..26 : LowerChars[i] = c)

\* sub occurs in s at position i
MatchAt(s, sub, i) == i >= 1 /\ i + Len(sub) - 1 <= Len(s)
                      /\ \A k \in 1..Len(sub) : s[i + k - 1] = sub[k]

\* Python's `sub in s`
Contains(s, sub) == \E i \in 1..(Len(s) - Len(sub) + 1) : MatchAt(s, sub, i)

\* re.search of a pattern "a" (one part) or "a.*b" (two parts): `.` matches
\* every character but the newline. A trailing ".*" matches the empty string,
\* so "do we have.*" is the one part "do we have".
Search(parts, s) ==
    IF Len(parts) = 1 THEN Contains(s, parts[1])
    ELSE \E i \in 1..Len(s) : \E j \in 1..Len(s) :
            /\ MatchAt(s, parts[1], i)
            /\ j >= i + Len(parts[1])
            /\ MatchAt(s, parts[2], j)
            /\ \A k \in (i + Len(parts[1]))..(j - 1) : s[k] # "\n"

\* the concatenation of a sequence of texts
RECURSIVE Flatten(_)
Flatten(ss) == IF Len(ss) = 0 THEN <<>> ELSE Head(ss) \o Flatten(Tail(ss))

DigitValue(c) == (CHOOSE i \in 1..10 : Digits[i] = c) - 1

\* int("...") of a string of digits
RECURSIVE StrToNat(_)
StrToNat(s) == IF Len(s) = 0 THEN 0
               ELSE 10 * StrToNat(SubSeq(s, 1, Len(s) - 1)) + DigitValue(s[Len(s)])

\* str(n) of a natural number
RECURSIVE NatToStr(_)
NatToStr(n) == IF n < 10 THEN <<Digits[n + 1]>>
               ELSE NatToStr(n \div 10) \o <<Digits[(n % 10) + 1]>>

\* re.findall(r'\b\d+\b', s): the maximal runs of word characters that are all
\* digits, as (first, last) positions.
NumberSpans(s) ==
    {sp \in (1..Len(s)) \X (1..Len(s)) :
        /\ sp[1] <= sp[2]
        /\ \A k \in sp[1]..sp[2] : IsDigit(s[k])
        /\ (sp[1] = 1 \/ ~IsWordChar(s[sp[1] - 1]))
        /\ (sp[2] = Len(s) \/ ~IsWordChar(s[sp[2] + 1]))}

\* numbers[-1] of the findall above; <<>> when there is no number
LastNumber(s) ==
    LET spans == NumberSpans(s) IN
    IF spans = {} THEN <<>>
    ELSE LET sp == CHOOSE x \in spans : \A y \in spans : y[1] <= x[1]
         IN SubSeq(s, sp[1], sp[2])

\* re.search(r'(\d+)\s*(?:units?|pieces?|items?)?', s).group(1): the leftmost
\* maximal run of digits; <<>> when s holds no digit
FirstDigitRun(s) ==
    LET ds == {i \in 1..Len(s) : IsDigit(s[i])} IN
    IF ds = {} THEN <<>>
    ELSE LET i == Min(ds)
             j == Max({k \in i..Len(s) : \A m \in i..k : IsDigit(s[m])})
         IN SubSeq(s, i, j)

\* ------------------------------------------------------------------ values
\* A Python value held in an entity mapping, a row or a result.
StrV(s) == [kind |-> "str", str |-> s, int |-> 0]

IntV(n) == [kind |-> "int", str |-> <<>>, int |-> n]

NullV == [kind |-> "null", str |-> <<>>, int |-> 0]

\* bool(v)
Truthy(v) == CASE v.kind = "str" -> v.str # <<>>
               [] v.kind = "int" -> v.int # 0
               [] OTHER -> FALSE

\* {} (a dict is a function from its keys)
EmptyDict == [k \in {} |-> NullV]

\* d[k] = v
Put(d, k, v) == [x \in (DOMAIN d) \cup {k} |-> IF x = k THEN v ELSE d[x]]

\* d.get(k) (None when absent)
Get(d, k) == IF k \in DOMAIN d THEN d[k] ELSE NullV

\* d.update(e) for a mapping e
Update(d, e) == [x \in (DOMAIN d) \cup (DOMAIN e) |-> IF x \in DOMAIN e THEN e[x] ELSE d[x]]

\* ------------------------------------------------------- rule-based classifier
stock_patterns == << <<<<"h","o","w"," ","m","a","n","y">>, <<"l","e","f","t">>>>,
                     <<<<"h","o","w"," ","m","a","n","y">>, <<"i","n"," ","s","t","o","c","k">>>>,
                     <<<<"s","t","o","c","k">>, <<"l","e","v","e","l">>>>,
                     <<<<"i","n","v","e","n","t","o","r","y">>, <<"c","o","u","n","t">>>>,
                     <<<<"q","u","a","n","t","i","t","y">>, <<"a","v","a","i","l","a","b","l","e">>>>,
                     <<<<"d","o"," ","w","e"," ","h","a","v","e">>>>,
                     <<<<"w","h","a","t">>, <<"s","t","o","c","k">>>> >>

reorder_patterns == << <<<<"r","e","s","t","o","c","k">>>>,
                       <<<<"r","e","o","r","d","e","r">>>>,
                       <<<<"o","r","d","e","r">>, <<"m","o","r","e">>>>,
                       <<<<"p","u","r","c","h","a","s","e">>, <<"o","r","d","e","r">>>>,
                       <<<<"b","u","y">>, <<"m","o","r","e">>>> >>

sales_patterns == << <<<<"s","a","l","e","s">>, <<"s","u","m","m","a","r","y">>>>,
                     <<<<"h","o","w"," ","m","a","n","y">>, <<"s","o","l","d">>>>,
                     <<<<"t","o","t","a","l">>, <<"s","a","l","e","s">>>>,
                     <<<<"r","e","v","e","n","u","e">>>>,
                     <<<<"s","a","l","e","s">>, <<"r","e","p","o","r","t">>>> >>

supplier_patterns == << <<<<"s","u","p","p","l","i","e","r">>>>,
                        <<<<"v","e","n","d","o","r">>>>,
                        <<<<"w","h","o">>, <<"s","u","p","p","l","i","e","s">>>>,
                        <<<<"s","u","p","p","l","i","e","r">>, <<"i","n","f","o">>>> >>

delivery_patterns == << <<<<"d","e","l","i","v","e","r","y">>, <<"s","t","a","t","u","s">>>>,
                        <<<<"w","h","e","n">>, <<"a","r","r","i","v","e">>>>,
                        <<<<"s","h","i","p","m","e","n","t">>>>,
                        <<<<"o","r","d","e","r">>, <<"s","t","a","t","u","s">>>>,
                        <<<<"w","h","e","n">>, <<"d","e","l","i","v","e","r">>>> >>

\* any(re.search(pattern, transcript) for pattern in patterns)
AnyMatch(patterns, t) == \E i \in 1..Len(patterns) : Search(patterns[i], t)

COLORS == <<<<"r","e","d">>, <<"b","l","u","e">>, <<"b","l","a","c","k">>, <<"w","h","i","t","e">>, <<"g","r","e","e","n">>,
            <<"y","e","l","l","o","w">>, <<"b","r","o","w","n">>, <<"g","r","a","y">>, <<"g","r","e","y">>>>

SIZES == <<<<"x","s">>, <<"s","m","a","l","l">>, <<"s">>, <<"m","e","d","i","u","m">>, <<"m">>, <<"l","a","r","g","e">>, <<"l">>, <<"x","l">>, <<"x","x","l">>>>

\* for w in words: if w in transcript: entities[key] = w   (the last hit stays)
ScanWords(e, key, words, t) ==
    LET hits == {i \in 1..Len(words) : Contains(t, words[i])}
    IN IF hits = {} THEN e ELSE Put(e, key, StrV(words[Max(hits)]))

\* numbers[-1] stored under key when it has at least 4 digits
ScanSku(e, t) ==
    LET n == LastNumber(t)
    IN IF Len(n) >= 4 THEN Put(e, "sku", StrV(n)) ELSE e

StockGroup(e, t) == ScanSku(ScanWords(ScanWords(e, "color", COLORS, t), "size", SIZES, t), t)

ReorderGroup(e, t) ==
    LET q == FirstDigitRun(t)
        e1 == IF q # <<>> THEN Put(e, "quantity", IntV(StrToNat(q))) ELSE e
    IN ScanWords(ScanWords(e1, "color", COLORS, t), "size", SIZES, t)

\* SalesGroup when only the keywords decide, not the digits "7" and "30"
SalesGroupByKeyword(e, t) ==
    Put(e, "window_days",
        IntV(IF Contains(t, <<"w","e","e","k">>) THEN 7
             ELSE IF Contains(t, <<"m","o","n","t","h">>) THEN 30
             ELSE IF Contains(t, <<"d","a","y">>) THEN 1
             ELSE 7))

SalesGroup(e, t) ==
    Put(e, "window_days",
        IntV(IF Contains(t, <<"w","e","e","k">>) \/ Contains(t, <<"7">>) THEN 7
             ELSE IF Contains(t, <<"m","o","n","t","h">>) \/ Contains(t, <<"3","0">>) THEN 30
             ELSE IF Contains(t, <<"d","a","y">>) THEN 1
             ELSE 7))

SupplierGroup(e, t) == ScanSku(e, t)

DeliveryGroup(e, t) ==
    LET n == LastNumber(t)
    IN IF n # <<>> THEN Put(Put(e, "reorder_id", StrV(n)), "purchase_order_id", StrV(n)) ELSE e

\* One pattern group of the function: `if any(re.search(p, transcript_lower) ...)`
\* sets the intent and lets the group write its entities; s is the intent set
\* so far ("" for none) and the entities written so far.
StockStep(s, t) ==
    IF AnyMatch(stock_patterns, t)
    THEN [intent |-> "get_stock", entities |-> StockGroup(s.entities, t)] ELSE s

ReorderStep(s, t) ==
    IF AnyMatch(reorder_patterns, t)
    THEN [intent |-> "create_reorder", entities |-> ReorderGroup(s.entities, t)] ELSE s

SalesStep(s, t) ==
    IF AnyMatch(sales_patterns, t)
    THEN [intent |-> "get_sales_summary", entities |-> SalesGroup(s.entities, t)] ELSE s

SupplierStep(s, t) ==
    IF AnyMatch(supplier_patterns, t)
    THEN [intent |-> "get_supplier_info", entities |-> SupplierGroup(s.entities, t)] ELSE s

DeliveryStep(s, t) ==
    IF AnyMatch(delivery_patterns, t)
    THEN [intent |-> "get_delivery_status", entities |-> DeliveryGroup(s.entities, t)] ELSE s

\* RulesOn as an if/elif chain: only the first group that matches runs
RulesOnFirstMatch(t, entities) ==
    LET s0 == [intent |-> "", entities |-> entities]
    IN IF AnyMatch(stock_patterns, t) THEN StockStep(s0, t)
       ELSE IF AnyMatch(reorder_patterns, t) THEN ReorderStep(s0, t)
       ELSE IF AnyMatch(sales_patterns, t) THEN SalesStep(s0, t)
       ELSE IF AnyMatch(supplier_patterns, t) THEN SupplierStep(s0, t)
       ELSE DeliveryStep(s0, t)

\* The five groups in source order, none of them skipped: a later group that
\* matches overwrites the intent of an earlier one.
RulesOn(t, entities) ==
    DeliveryStep(SupplierStep(SalesStep(ReorderStep(StockStep(
        [intent |-> "", entities |-> entities], t), t), t), t), t)

\* Defaulted without the default: the intent stays empty when no group matched
Undefaulted(s) == s

\* `if not intent: intent = "get_stock"`
Defaulted(s) == [intent |-> IF s.intent = "" THEN "get_stock" ELSE s.intent,
                 entities |-> s.entities]

\* parse_intent_rules on (request.transcript, request.entities or {}): the
\* returned {"intent", "entities"}
parse_intent_rules(transcript, entities) == Defaulted(RulesOn(Lower(transcript), entities))

\* ------------------------------------------------------------------ constants
MAX_QUERY_RESULTS == 20

DEFAULT_REORDER_QUANTITY == 50

DEFAULT_SALES_WINDOW_DAYS == 7

REORDER_DUE_DAYS == 7

MAX_DELIVERY_ORDERS == 5

TASK_TYPE_REORDER == <<"R","e","o","r","d","e","r">>

TASK_STATUS_PENDING == <<"P","e","n","d","i","n","g">>

EMPLOYEE_SYSTEM == <<"S","y","s","t","e","m">>

ORDER_STATUS_PENDING == <<"P","e","n","d","i","n","g">>

ORDER_STATUS_SHIPPED == <<"S","h","i","p","p","e","d">>

\* ------------------------------------------------------------------ dates
\* A date is a day number; day 1 is 2023-12-01. The calendar spans the months
\* below, which is where every date of the model lies.
Months == << [prefix |-> <<"2","0","2","3","-","1","2","-">>, days |-> 31],
             [prefix |-> <<"2","0","2","4","-","0","1","-">>, days |-> 31],
             [prefix |-> <<"2","0","2","4","-","0","2","-">>, days |-> 29],
             [prefix |-> <<"2","0","2","4","-","0","3","-">>, days |-> 31] >>

RECURSIVE DaysBefore(_)
DaysBefore(m) == IF m <= 1 THEN 0 ELSE DaysBefore(m - 1) + Months[m - 1].days

LastDay == DaysBefore(Len(Months) + 1)

TwoDigits(n) == IF n < 10 THEN <<"0">> \o NatToStr(n) ELSE NatToStr(n)

\* date.isoformat()
IsoFormat(d) ==
    LET m == CHOOSE i \in 1..Len(Months) : DaysBefore(i) < d /\ d <= DaysBefore(i + 1)
    IN Months[m].prefix \o TwoDigits(d - DaysBefore(m))

\* the dates whose ISO text is s (none when s is no date of the calendar)
IsoDates(s) == {d \in 1..LastDay : IsoFormat(d) = s}

\* datetime.fromisoformat(s).date() succeeds
IsIsoDate(s) == IsoDates(s) # {}

FromIso(s) == CHOOSE d \in IsoDates(s) : TRUE

\* ------------------------------------------------------------------ errors
\* a marker that carries the message a second time, under a third key
MarkerWithDetail(message) == [error |-> TRUE, error_message |-> message, detail |-> message]

\* {"error": True, "error_message": message}
Marker(message) == [error |-> TRUE, error_message |-> message]

\* handle_database_error(error, logger), on the text of the exception
handle_database_error(text) ==
    LET error_msg == Lower(text)
    IN IF Contains(error_msg, <<"c","o","n","n","e","c","t","i","o","n">>) \/ Contains(error_msg, <<"t","i","m","e","o","u","t">>)
       THEN Marker(<<"D","a","t","a","b","a","s","e"," ","c","o","n","n","e","c","t","i","o","n"," ","e","r","r","o","r","."," ","P","l","e","a","s","e"," ","t","r","y"," ","a","g","a","i","n",".">>)
       ELSE IF Contains(error_msg, <<"n","o","t"," ","f","o","u","n","d">>)
       THEN Marker(<<"R","e","q","u","e","s","t","e","d"," ","d","a","t","a"," ","n","o","t"," ","f","o","u","n","d",".">>)
       ELSE Marker(<<"D","a","t","a","b","a","s","e"," ","o","p","e","r","a","t","i","o","n"," ","f","a","i","l","e","d",":"," ">> \o text)

\* ------------------------------------------------------------------ store
\* The store answers one request at a time. What a data operation meets:
\*   db      the rows of the three tables it reads
\*   cfault  whether create_client raises (only met when no client exists yet)
\*   fault   kind "raise": the at-th store call of the operation raises text;
\*           kind "noecho": an insert stores the row and returns no data
\*   today   date.today()
\*   uid     str(uuid.uuid4())[:6]
NoFault == [kind |-> "none", at |-> 0, text |-> <<>>]

RaiseAt(n, text) == [kind |-> "raise", at |-> n, text |-> text]

NoEcho == [kind |-> "noecho", at |-> 0, text |-> <<>>]

Fails(fault, n) == fault.kind = "raise" /\ fault.at = n

\* Returned when every answered request also writes a row into the task table
ReturnedLogged(result, table, queries, caught) ==
    [raised |-> FALSE, exc |-> <<>>, result |-> result, tasks |-> Append(table, result),
     client |-> TRUE, queries |-> queries, caught |-> caught]

\* What an operation hands back to its caller, and what it did on the way:
\*   raised/exc  it raised exc instead of returning
\*   result      the dict it returned
\*   tasks       the task table after it
\*   client      whether the client singleton exists after it
\*   queries     the number of store calls it issued
\*   caught      the texts of the exceptions it caught
Returned(result, table, queries, caught) ==
    [raised |-> FALSE, exc |-> <<>>, result |-> result, tasks |-> table,
     client |-> TRUE, queries |-> queries, caught |-> caught]

\* get_supabase_client(): creates the client when there is none
ClientRaises(has_client, cfault) == ~has_client /\ cfault.fails

\* the operation ends in `except Exception as e: return handle_database_error(e)`
Caught(text, table, has_client, queries) ==
    [raised |-> FALSE, exc |-> <<>>, result |-> handle_database_error(text),
     tasks |-> table, client |-> has_client, queries |-> queries, caught |-> {text}]

\* the exception leaves the operation
Propagated(text, table, has_client, queries) ==
    [raised |-> TRUE, exc |-> text, result |-> EmptyDict, tasks |-> table,
     client |-> has_client, queries |-> queries, caught |-> {}]

\* str(v) as an f-string renders it
TextOf(v) == CASE v.kind = "str" -> v.str
               [] v.kind = "int" -> NatToStr(v.int)
               [] OTHER -> <<"N","o","n","e">>

\* column ILIKE '%x%' (a NULL column matches nothing)
ILike(cell, x) == cell.kind = "str" /\ Contains(Lower(cell.str), Lower(TextOf(x)))

\* column = x, the value compared as the store renders it
EqCell(cell, x) == cell.kind # "null" /\ TextOf(cell) = TextOf(x)

\* build_inventory_query(filters): the rows the query selects, before its limit
InventoryMatches(filters, row) ==
    IF Truthy(Get(filters, "product_id"))
    THEN EqCell(row.product_id, filters["product_id"])
    ELSE /\ Truthy(Get(filters, "name")) => ILike(row.name, filters["name"])
         /\ Truthy(Get(filters, "category")) => ILike(row.category, filters["category"])
         /\ Truthy(Get(filters, "color")) => ILike(row.color, filters["color"])
         /\ Truthy(Get(filters, "size")) => EqCell(row.size, filters["size"])

Limit(rows, n) == SubSeq(rows, 1, IF Len(rows) < n THEN Len(rows) ELSE n)

\* build_inventory_query that applies none of its filters
build_inventory_query_unfiltered(filters, inventory) == inventory

build_inventory_query(filters, inventory) ==
    LET Hit(row) == InventoryMatches(filters, row)
    IN SelectSeq(inventory, Hit)

TypeName(v) == CASE v.kind = "str" -> <<"s","t","r">>
                 [] v.kind = "int" -> <<"i","n","t">>
                 [] OTHER -> <<"N","o","n","e","T","y","p","e">>

\* quantity <= reorder_threshold raises TypeError unless both are numbers
CompareRaises(row) == row.stock_quantity.kind # "int" \/ row.reorder_threshold.kind # "int"

CompareError(row) ==
    <<"'","<","=","'"," ","n","o","t"," ","s","u","p","p","o","r","t","e","d"," ","b","e","t","w","e","e","n"," ","i","n","s","t","a","n","c","e","s"," ","o","f"," ","'">> \o TypeName(row.stock_quantity)
    \o <<"'"," ","a","n","d"," ","'">> \o TypeName(row.reorder_threshold) \o <<"'">>

\* format_inventory_item(row)
format_inventory_item(row) ==
    [product_id |-> row.product_id,
     name |-> row.name,
     category |-> row.category,
     color |-> row.color,
     size |-> row.size,
     quantity |-> row.stock_quantity,
     low_stock |-> row.stock_quantity.int <= row.reorder_threshold.int,
     reorder_threshold |-> row.reorder_threshold,
     location |-> row.location,
     selling_price |-> row.selling_price,
     supplier_id |-> row.supplier_id]

\* handle_get_stock(entities)
handle_get_stock(entities, db, table, has_client, cfault, fault, today, uid) ==
    IF ClientRaises(has_client, cfault) THEN Caught(cfault.text, table, has_client, 0)
    ELSE IF Fails(fault, 1) THEN Caught(fault.text, table, TRUE, 1)
    ELSE LET rows == Limit(build_inventory_query(entities, db.inventory), MAX_QUERY_RESULTS)
             bad == {i \in 1..Len(rows) : CompareRaises(rows[i])}
         IN IF bad # {} THEN Caught(CompareError(rows[Min(bad)]), table, TRUE, 1)
            ELSE Returned([items |-> [i \in 1..Len(rows) |-> format_inventory_item(rows[i])]],
                          table, 1, {})

UpperChar(c) == IF \E i \in 1..26 : LowerChars[i] = c
                THEN UpperChars[CHOOSE i \in 1..26 : LowerChars[i] = c] ELSE c

\* str.upper()
Upper(s) == [i \in 1..Len(s) |-> UpperChar(s[i])]

\* entities.get(key, default)
GetOr(d, k, default) == IF k \in DOMAIN d THEN d[k] ELSE default

\* the row handle_create_reorder inserts
task_data(uid, today, product_id) ==
    [task_id |-> StrV(<<"T","A","S","K">> \o Upper(uid)),
     employee_name |-> StrV(EMPLOYEE_SYSTEM),
     employee_role |-> StrV(EMPLOYEE_SYSTEM),
     task_type |-> StrV(TASK_TYPE_REORDER),
     assigned_date |-> StrV(IsoFormat(today)),
     due_date |-> StrV(IsoFormat(today + REORDER_DUE_DAYS)),
     status |-> StrV(TASK_STATUS_PENDING),
     related_product |-> product_id]

\* handle_create_reorder(entities)
handle_create_reorder(entities, db, table, has_client, cfault, fault, today, uid) ==
    IF ClientRaises(has_client, cfault) THEN Propagated(cfault.text, table, has_client, 0)
    ELSE IF Fails(fault, 1) THEN Caught(fault.text, table, TRUE, 1)
    ELSE LET quantity == GetOr(entities, "quantity", IntV(DEFAULT_REORDER_QUANTITY))
             data == Limit(build_inventory_query(entities, db.inventory), 1)
         IN IF Len(data) = 0
            THEN Returned(Marker(<<"P","r","o","d","u","c","t"," ","n","o","t"," ","f","o","u","n","d">>), table, 1, {})
            ELSE LET product_info == data[1]
                     product_id == product_info.product_id
                     task == task_data(uid, today, product_id)
                 IN IF Fails(fault, 2) THEN Caught(fault.text, table, TRUE, 2)
                    ELSE IF fault.kind = "noecho"
                    THEN Returned(Marker(<<"F","a","i","l","e","d"," ","t","o"," ","c","r","e","a","t","e"," ","r","e","o","r","d","e","r"," ","t","a","s","k">>),
                                  Append(table, task), 2, {})
                    ELSE Returned([task_id |-> task.task_id,
                                   product_id |-> product_id,
                                   product_name |-> product_info.name,
                                   quantity |-> quantity,
                                   status |-> StrV(<<"p","e","n","d","i","n","g">>),
                                   supplier_id |-> product_info.supplier_id,
                                   due_date |-> task.due_date],
                                  Append(table, task), 2, {})

\* ------------------------------------------------------------- ordering of text
\* The characters of the stored texts in code-point order.
CodePoints == <<" ", "'", "-", ".", "/", "0","1","2","3","4","5","6","7","8","9", ":",
                "A","B","C","D","E","F","G","H","I","J","K","L","M",
                "N","O","P","Q","R","S","T","U","V","W","X","Y","Z", "_",
                "a","b","c","d","e","f","g","h","i","j","k","l","m",
                "n","o","p","q","r","s","t","u","v","w","x","y","z">>

Ord(c) == CHOOSE i \in 1..Len(CodePoints) : CodePoints[i] = c

\* a < b as texts
StrLess(a, b) ==
    \E i \in 1..(Len(b)) :
        /\ \A k \in 1..(i - 1) : k <= Len(a) /\ a[k] = b[k]
        /\ (i > Len(a) \/ Ord(a[i]) < Ord(b[i]))
        /\ i - 1 <= Len(a)

StrLeq(a, b) == a = b \/ StrLess(a, b)

\* the rows as the table holds them, not ordered
OrderAsStored(rows, col) == rows

\* .order(col, desc=True): descending, NULLs first, rows of equal key in table order
OrderDesc(rows, col) ==
    LET Before(j, i) ==
            \/ rows[j][col].kind = "null" /\ rows[i][col].kind # "null"
            \/ rows[j][col].kind # "null" /\ rows[i][col].kind # "null"
               /\ StrLess(rows[i][col].str, rows[j][col].str)
            \/ j < i /\ rows[j][col] = rows[i][col]
        Pos(i) == 1 + Cardinality({j \in 1..Len(rows) : Before(j, i)})
    IN [k \in 1..Len(rows) |-> rows[CHOOSE i \in 1..Len(rows) : Pos(i) = k]]

\* s.split("T")[0]
BeforeT(s) ==
    LET ts == {i \in 1..Len(s) : s[i] = "T"}
    IN IF ts = {} THEN s ELSE SubSeq(s, 1, Min(ts) - 1)

RECURSIVE SumInts(_)
SumInts(xs) == IF Len(xs) = 0 THEN 0 ELSE Head(xs) + SumInts(Tail(xs))

\* ------------------------------------------------------------- get_sales_summary
\* sum(row.get("quantity_sold", 0) ...) raises TypeError on a null cell
SumRaises(rows) == \E i \in 1..Len(rows) : rows[i].quantity_sold.kind # "int"

SumError == <<"u","n","s","u","p","p","o","r","t","e","d"," ","o","p","e","r","a","n","d"," ","t","y","p","e","(","s",")"," ","f","o","r"," ","+",":"," ","'","i","n","t","'"," ","a","n","d"," ","'","N","o","n","e","T","y","p","e","'">>

\* timedelta(days=window_days) raises TypeError unless window_days is a number
WindowError(w) == <<"u","n","s","u","p","p","o","r","t","e","d"," ","t","y","p","e"," ","f","o","r"," ","t","i","m","e","d","e","l","t","a"," ","d","a","y","s"," ","c","o","m","p","o","n","e","n","t",":"," ">> \o TypeName(w)

IsoError(s) == <<"I","n","v","a","l","i","d"," ","i","s","o","f","o","r","m","a","t"," ","s","t","r","i","n","g",":"," ","'">> \o s \o <<"'">>

\* SalesBetween without the lower end of the window
SalesUpTo(sales, start, end) ==
    LET Hit(row) == row.sale_date.kind = "str" /\ StrLeq(row.sale_date.str, end)
    IN SelectSeq(sales, Hit)

\* the rows with start <= sale_date <= end
SalesBetween(sales, start, end) ==
    LET Hit(row) == /\ row.sale_date.kind = "str"
                    /\ StrLeq(start, row.sale_date.str)
                    /\ StrLeq(row.sale_date.str, end)
    IN SelectSeq(sales, Hit)

\* the summary once the reference date is known; n store calls were issued before
SalesTotals(entities, db, table, fault, reference_date, n) ==
    LET window_days == GetOr(entities, "window_days", IntV(DEFAULT_SALES_WINDOW_DAYS))
    IN IF window_days.kind # "int" THEN Caught(WindowError(window_days), table, TRUE, n)
       ELSE LET start_date == IsoFormat(reference_date - window_days.int)
                end_date == IsoFormat(reference_date)
            IN IF Fails(fault, n + 1) THEN Caught(fault.text, table, TRUE, n + 1)
               ELSE LET data == SalesBetween(db.sales, start_date, end_date)
                    IN IF SumRaises(data) THEN Caught(SumError, table, TRUE, n + 1)
                       ELSE Returned(
                              [total_quantity |->
                                   SumInts([i \in 1..Len(data) |-> data[i].quantity_sold.int]),
                               total_revenue |->
                                   SumInts([i \in 1..Len(data) |-> data[i].revenue.int]),
                               window_days |-> window_days.int,
                               transaction_count |-> Len(data),
                               start_date |-> start_date,
                               end_date |-> end_date],
                              table, n + 1, {})

\* handle_get_sales_summary(entities). Revenue is counted in cents.
handle_get_sales_summary(entities, db, table, has_client, cfault, fault, today, uid) ==
    IF ClientRaises(has_client, cfault) THEN Propagated(cfault.text, table, has_client, 0)
    ELSE IF Fails(fault, 1) THEN Caught(fault.text, table, TRUE, 1)
    ELSE LET recent == Limit(OrderDesc(db.sales, "sale_date"), 1)
         IN IF Len(recent) > 0 /\ Truthy(recent[1].sale_date)
            THEN LET date_part == BeforeT(recent[1].sale_date.str)
                 IN IF IsIsoDate(date_part)
                    THEN SalesTotals(entities, db, table, fault, FromIso(date_part), 1)
                    \* except (ValueError, AttributeError): the sample of all sales
                    ELSE IF Fails(fault, 2) THEN Caught(fault.text, table, TRUE, 2)
                    ELSE LET all_sales == Limit(db.sales, 1000)
                             dated == {i \in 1..Len(all_sales) : Truthy(all_sales[i].sale_date)}
                             bad == {i \in dated : ~IsIsoDate(BeforeT(all_sales[i].sale_date.str))}
                         IN IF bad # {}
                            THEN Caught(IsoError(BeforeT(all_sales[Min(bad)].sale_date.str)),
                                        table, TRUE, 2)
                            ELSE SalesTotals(entities, db, table, fault,
                                   IF dated = {} THEN today
                                   ELSE Max({FromIso(BeforeT(all_sales[i].sale_date.str)) : i \in dated}),
                                   2)
            ELSE SalesTotals(entities, db, table, fault, today, 1)

\* ------------------------------------------------------------- get_supplier_info
\* s[-3:]
Last3(s) == SubSeq(s, IF Len(s) > 3 THEN Len(s) - 2 ELSE 1, Len(s))

handle_get_supplier_info(entities, db, table, has_client, cfault, fault, today, uid) ==
    IF ClientRaises(has_client, cfault) THEN Propagated(cfault.text, table, has_client, 0)
    ELSE LET product_id == Get(entities, "product_id")
         IN IF ~Truthy(product_id) THEN Returned(Marker(<<"P","r","o","d","u","c","t"," ","I","D"," ","r","e","q","u","i","r","e","d">>), table, 0, {})
            ELSE IF Fails(fault, 1) THEN Caught(fault.text, table, TRUE, 1)
            ELSE LET IsProduct(row) == EqCell(row.product_id, product_id)
                     found == Limit(SelectSeq(db.inventory, IsProduct), 1)
                 IN IF Len(found) = 0
                    THEN Returned(Marker(<<"P","r","o","d","u","c","t"," ","n","o","t"," ","f","o","u","n","d">>), table, 1, {})
                    ELSE LET supplier_id == found[1].supplier_id
                             product_name == found[1].name
                         IN IF ~Truthy(supplier_id)
                            THEN Returned(Marker(<<"S","u","p","p","l","i","e","r"," ","I","D"," ","n","o","t"," ","f","o","u","n","d"," ","f","o","r"," ","t","h","i","s"," ","p","r","o","d","u","c","t">>),
                                          table, 1, {})
                            ELSE IF supplier_id.kind # "str"
                            THEN Caught(<<"'","i","n","t","'"," ","o","b","j","e","c","t"," ","i","s"," ","n","o","t"," ","s","u","b","s","c","r","i","p","t","a","b","l","e">>, table, TRUE, 1)
                            ELSE IF Fails(fault, 2) THEN Caught(fault.text, table, TRUE, 2)
                            ELSE LET Like(row) == ILike(row.supplier_id, StrV(Last3(supplier_id.str)))
                                     matched == Limit(SelectSeq(db.orders, Like), 1)
                                 IN IF Len(matched) = 0 /\ Fails(fault, 3)
                                    THEN Caught(fault.text, table, TRUE, 3)
                                    ELSE LET data == IF Len(matched) = 0
                                                     THEN Limit(db.orders, 1) ELSE matched
                                             n == IF Len(matched) = 0 THEN 3 ELSE 2
                                         IN IF Len(data) = 0
                                            THEN Returned(Marker(<<"S","u","p","p","l","i","e","r"," ","i","n","f","o","r","m","a","t","i","o","n"," ","n","o","t"," ","f","o","u","n","d">>),
                                                          table, n, {})
                                            ELSE Returned(
                                                   [supplier_id |-> data[1].supplier_id,
                                                    supplier_name |-> data[1].supplier_name,
                                                    contact_name |-> data[1].contact_name,
                                                    contact_email |-> data[1].contact_email,
                                                    phone |-> data[1].phone_number,
                                                    city |-> data[1].city,
                                                    state |-> data[1].state,
                                                    product_categories |->
                                                        data[1].product_categories_supplied,
                                                    note |-> <<"S","u","p","p","l","i","e","r"," ","i","n","f","o"," ","f","o","r"," ","p","r","o","d","u","c","t",":"," ">> \o
                                                        TextOf(IF Truthy(product_name)
                                                               THEN product_name ELSE product_id)],
                                                   table, n, {})

\* ------------------------------------------------------------- get_delivery_status
\* datetime.fromisoformat(text) succeeds: a date of the calendar, with or without
\* a time of day after "T"
ParsesAsDate(text) == IsIsoDate(BeforeT(text))

\* one entry of "orders"
DeliveryEntry(order, today) ==
    LET delivery_date == order.delivery_date
    IN [purchase_order_id |-> order.purchase_order_id,
        supplier_name |-> order.supplier_name,
        status |-> order.status,
        order_date |-> order.order_date,
        delivery_date |-> delivery_date,
        days_until_delivery |->
            IF Truthy(delivery_date) /\ ParsesAsDate(delivery_date.str)
            THEN [known |-> TRUE, days |-> FromIso(BeforeT(delivery_date.str)) - today]
            ELSE [known |-> FALSE, days |-> 0],
        total_cost |-> order.total_cost,
        payment_status |-> order.payment_status]

\* the delivery date is a number: `delivery_date - today` raises TypeError
DeliveryRaises(order) == order.delivery_date.kind = "int" /\ Truthy(order.delivery_date)

handle_get_delivery_status(entities, db, table, has_client, cfault, fault, today, uid) ==
    IF ClientRaises(has_client, cfault) THEN Propagated(cfault.text, table, has_client, 0)
    ELSE IF Fails(fault, 1) THEN Caught(fault.text, table, TRUE, 1)
    ELSE LET purchase_order_id == Get(entities, "purchase_order_id")
             supplier_id == Get(entities, "supplier_id")
             ByPO(row) == EqCell(row.purchase_order_id, purchase_order_id)
             BySupplier(row) == EqCell(row.supplier_id, supplier_id)
             Open(row) == row.status.kind = "str"
                          /\ row.status.str \in {ORDER_STATUS_PENDING, ORDER_STATUS_SHIPPED}
             data == IF Truthy(purchase_order_id)
                     THEN Limit(SelectSeq(db.orders, ByPO), 1)
                     ELSE IF Truthy(supplier_id)
                     THEN Limit(OrderDesc(SelectSeq(db.orders, BySupplier), "order_date"), 1)
                     ELSE Limit(OrderDesc(SelectSeq(db.orders, Open), "order_date"),
                                MAX_DELIVERY_ORDERS)
         IN IF Len(data) = 0
            THEN Returned(Marker(<<"N","o"," ","d","e","l","i","v","e","r","y"," ","i","n","f","o","r","m","a","t","i","o","n"," ","f","o","u","n","d">>), table, 1, {})
            ELSE IF \E i \in 1..Len(data) : DeliveryRaises(data[i])
            THEN Caught(<<"u","n","s","u","p","p","o","r","t","e","d"," ","o","p","e","r","a","n","d"," ","t","y","p","e","(","s",")"," ","f","o","r"," ","-",":"," ","'","i","n","t","'"," ","a","n","d"," ","'","d","a","t","e","t","i","m","e",".","d","a","t","e","'">>,
                        table, TRUE, 1)
            ELSE Returned([orders |-> [i \in 1..Len(data) |-> DeliveryEntry(data[i], today)]],
                          table, 1, {})

\* ------------------------------------------------------------- speech generator
\* A template is a sequence of segments: literal text (ph = "") or a replacement
\* field {ph} (lit is the field as written).
TRANSLATIONS ==
 [
  en |->
    [
     error_generic |-> <<[lit |-> <<"I","'","m"," ","s","o","r","r","y",","," ","s","o","m","e","t","h","i","n","g"," ","w","e","n","t"," ","w","r","o","n","g"," ","w","h","i","l","e"," ","p","r","o","c","e","s","s","i","n","g"," ","y","o","u","r"," ","r","e","q","u","e","s","t",".">>, ph |-> ""]>>,
     error_parse |-> <<[lit |-> <<"I","'","m"," ","s","o","r","r","y",","," ","I"," ","c","o","u","l","d","n","'","t"," ","u","n","d","e","r","s","t","a","n","d"," ","y","o","u","r"," ","r","e","q","u","e","s","t","."," ","P","l","e","a","s","e"," ","t","r","y"," ","a","g","a","i","n",".">>, ph |-> ""]>>,
     error_unknown_intent |-> <<[lit |-> <<"I","'","m"," ","s","o","r","r","y",","," ","I"," ","d","o","n","'","t"," ","k","n","o","w"," ","h","o","w"," ","t","o"," ","h","a","n","d","l","e"," ","t","h","a","t"," ","t","y","p","e"," ","o","f"," ","r","e","q","u","e","s","t",".">>, ph |-> ""]>>,
     error_not_found |-> <<[lit |-> <<"I"," ","c","o","u","l","d","n","'","t"," ","f","i","n","d"," ","t","h","a","t"," ","p","r","o","d","u","c","t",".">>, ph |-> ""]>>,
     error_reorder |-> <<[lit |-> <<"I"," ","c","o","u","l","d","n","'","t"," ","c","r","e","a","t","e"," ","t","h","a","t"," ","r","e","o","r","d","e","r",".">>, ph |-> ""]>>,
     error_sales |-> <<[lit |-> <<"I"," ","c","o","u","l","d","n","'","t"," ","r","e","t","r","i","e","v","e"," ","s","a","l","e","s"," ","d","a","t","a",".">>, ph |-> ""]>>,
     error_supplier |-> <<[lit |-> <<"I"," ","c","o","u","l","d","n","'","t"," ","f","i","n","d"," ","s","u","p","p","l","i","e","r"," ","i","n","f","o","r","m","a","t","i","o","n",".">>, ph |-> ""]>>,
     error_delivery |-> <<[lit |-> <<"I"," ","c","o","u","l","d","n","'","t"," ","f","i","n","d"," ","d","e","l","i","v","e","r","y"," ","i","n","f","o","r","m","a","t","i","o","n",".">>, ph |-> ""]>>,
     no_products |-> <<[lit |-> <<"N","o"," ","p","r","o","d","u","c","t","s"," ","f","o","u","n","d"," ","m","a","t","c","h","i","n","g"," ","y","o","u","r"," ","c","r","i","t","e","r","i","a",".">>, ph |-> ""]>>,
     low_stock_warning |-> <<[lit |-> <<"T","h","i","s"," ","p","r","o","d","u","c","t"," ","i","s"," ","r","u","n","n","i","n","g"," ","l","o","w"," ","a","n","d"," ","n","e","e","d","s"," ","r","e","s","t","o","c","k","i","n","g",".">>, ph |-> ""]>>,
     stock_prefix |-> <<[lit |-> <<"T","h","e","r","e"," ","a","r","e">>, ph |-> ""]>>,
     stock_suffix |-> <<[lit |-> <<"i","n"," ","s","t","o","c","k",".">>, ph |-> ""]>>,
     stock_color_prefix |-> <<[lit |-> <<"i","n">>, ph |-> ""]>>,
     stock_size_prefix |-> <<[lit |-> <<"s","i","z","e">>, ph |-> ""]>>,
     stock_multiple |-> <<[lit |-> <<"F","o","u","n","d"," ">>, ph |-> ""], [lit |-> <<"{","c","o","u","n","t","}">>, ph |-> "count"], [lit |-> <<" ","m","a","t","c","h","i","n","g"," ","p","r","o","d","u","c","t","s"," ","w","i","t","h"," ","a"," ","t","o","t","a","l"," ","q","u","a","n","t","i","t","y"," ","o","f"," ">>, ph |-> ""], [lit |-> <<"{","t","o","t","a","l","}">>, ph |-> "total"], [lit |-> <<".">>, ph |-> ""]>>,
     reorder_success |-> <<[lit |-> <<"C","r","e","a","t","e","d"," ","r","e","o","r","d","e","r"," ">>, ph |-> ""], [lit |-> <<"{","r","e","o","r","d","e","r","_","i","d","}">>, ph |-> "reorder_id"], [lit |-> <<" ","f","o","r"," ">>, ph |-> ""], [lit |-> <<"{","q","u","a","n","t","i","t","y","}">>, ph |-> "quantity"], [lit |-> <<" ">>, ph |-> ""], [lit |-> <<"{","p","r","o","d","u","c","t","_","n","a","m","e","}">>, ph |-> "product_name"], [lit |-> <<"."," ","S","t","a","t","u","s",":"," ">>, ph |-> ""], [lit |-> <<"{","s","t","a","t","u","s","}">>, ph |-> "status"]>>,
     sales_prefix |-> <<[lit |-> <<"I","n"," ","t","h","e"," ","l","a","s","t"," ">>, ph |-> ""], [lit |-> <<"{","d","a","y","s","}">>, ph |-> "days"], [lit |-> <<" ","d","a","y","s",",">>, ph |-> ""]>>,
     sales_sold |-> <<[lit |-> <<"y","o","u"," ","s","o","l","d"," ">>, ph |-> ""], [lit |-> <<"{","q","u","a","n","t","i","t","y","}">>, ph |-> "quantity"], [lit |-> <<" ","i","t","e","m","s">>, ph |-> ""]>>,
     sales_revenue |-> <<[lit |-> <<"w","i","t","h"," ","t","o","t","a","l"," ","r","e","v","e","n","u","e"," ","o","f"," ","$">>, ph |-> ""], [lit |-> <<"{","r","e","v","e","n","u","e",":",".","2","f","}">>, ph |-> "revenue"]>>,
     supplier_info |-> <<[lit |-> <<"T","h","e"," ","s","u","p","p","l","i","e","r"," ","i","s"," ">>, ph |-> ""], [lit |-> <<"{","n","a","m","e","}">>, ph |-> "name"], [lit |-> <<" ","w","i","t","h"," ","a"," ","l","e","a","d"," ","t","i","m","e"," ","o","f"," ">>, ph |-> ""], [lit |-> <<"{","d","a","y","s","}">>, ph |-> "days"], [lit |-> <<" ","d","a","y","s",".">>, ph |-> ""]>>,
     delivery_status |-> <<[lit |-> <<"O","r","d","e","r"," ","s","t","a","t","u","s"," ","i","s"," ">>, ph |-> ""], [lit |-> <<"{","s","t","a","t","u","s","}">>, ph |-> "status"], [lit |-> <<".">>, ph |-> ""]>>,
     delivery_eta |-> <<[lit |-> <<"E","x","p","e","c","t","e","d"," ","d","e","l","i","v","e","r","y"," ","d","a","t","e"," ","i","s"," ">>, ph |-> ""], [lit |-> <<"{","e","t","a","}">>, ph |-> "eta"], [lit |-> <<".">>, ph |-> ""]>>,
     request_success |-> <<[lit |-> <<"R","e","q","u","e","s","t"," ","p","r","o","c","e","s","s","e","d"," ","s","u","c","c","e","s","s","f","u","l","l","y",".">>, ph |-> ""]>>
    ],
  es |->
    [
     error_generic |-> <<[lit |-> <<"L","o"," ","s","i","e","n","t","o",","," ","a","l","g","o"," ","s","a","l","i","ó"," ","m","a","l"," ","a","l"," ","p","r","o","c","e","s","a","r"," ","t","u"," ","s","o","l","i","c","i","t","u","d",".">>, ph |-> ""]>>,
     error_parse |-> <<[lit |-> <<"L","o"," ","s","i","e","n","t","o",","," ","n","o"," ","p","u","d","e"," ","e","n","t","e","n","d","e","r"," ","t","u"," ","s","o","l","i","c","i","t","u","d","."," ","P","o","r"," ","f","a","v","o","r",","," ","i","n","t","é","n","t","a","l","o"," ","d","e"," ","n","u","e","v","o",".">>, ph |-> ""]>>,
     error_unknown_intent |-> <<[lit |-> <<"L","o"," ","s","i","e","n","t","o",","," ","n","o"," ","s","é"," ","c","ó","m","o"," ","m","a","n","e","j","a","r"," ","e","s","e"," ","t","i","p","o"," ","d","e"," ","s","o","l","i","c","i","t","u","d",".">>, ph |-> ""]>>,
     error_not_found |-> <<[lit |-> <<"N","o"," ","p","u","d","e"," ","e","n","c","o","n","t","r","a","r"," ","e","s","e"," ","p","r","o","d","u","c","t","o",".">>, ph |-> ""]>>,
     error_reorder |-> <<[lit |-> <<"N","o"," ","p","u","d","e"," ","c","r","e","a","r"," ","e","s","a"," ","r","e","o","r","d","e","n",".">>, ph |-> ""]>>,
     error_sales |-> <<[lit |-> <<"N","o"," ","p","u","d","e"," ","r","e","c","u","p","e","r","a","r"," ","l","o","s"," ","d","a","t","o","s"," ","d","e"," ","v","e","n","t","a","s",".">>, ph |-> ""]>>,
     error_supplier |-> <<[lit |-> <<"N","o"," ","p","u","d","e"," ","e","n","c","o","n","t","r","a","r"," ","i","n","f","o","r","m","a","c","i","ó","n"," ","d","e","l"," ","p","r","o","v","e","e","d","o","r",".">>, ph |-> ""]>>,
     error_delivery |-> <<[lit |-> <<"N","o"," ","p","u","d","e"," ","e","n","c","o","n","t","r","a","r"," ","i","n","f","o","r","m","a","c","i","ó","n"," ","d","e"," ","e","n","t","r","e","g","a",".">>, ph |-> ""]>>,
     no_products |-> <<[lit |-> <<"N","o"," ","s","e"," ","e","n","c","o","n","t","r","a","r","o","n"," ","p","r","o","d","u","c","t","o","s"," ","q","u","e"," ","c","o","i","n","c","i","d","a","n"," ","c","o","n"," ","t","u","s"," ","c","r","i","t","e","r","i","o","s",".">>, ph |-> ""]>>,
     low_stock_warning |-> <<[lit |-> <<"E","s","t","e"," ","p","r","o","d","u","c","t","o"," ","s","e"," ","e","s","t","á"," ","a","g","o","t","a","n","d","o"," ","y"," ","n","e","c","e","s","i","t","a"," ","r","e","a","b","a","s","t","e","c","i","m","i","e","n","t","o",".">>, ph |-> ""]>>,
     stock_prefix |-> <<[lit |-> <<"H","a","y">>, ph |-> ""]>>,
     stock_suffix |-> <<[lit |-> <<"e","n"," ","s","t","o","c","k",".">>, ph |-> ""]>>,
     stock_color_prefix |-> <<[lit |-> <<"e","n">>, ph |-> ""]>>,
     stock_size_prefix |-> <<[lit |-> <<"t","a","l","l","a">>, ph |-> ""]>>,
     stock_multiple |-> <<[lit |-> <<"S","e"," ","e","n","c","o","n","t","r","a","r","o","n"," ">>, ph |-> ""], [lit |-> <<"{","c","o","u","n","t","}">>, ph |-> "count"], [lit |-> <<" ","p","r","o","d","u","c","t","o","s"," ","q","u","e"," ","c","o","i","n","c","i","d","e","n"," ","c","o","n"," ","u","n","a"," ","c","a","n","t","i","d","a","d"," ","t","o","t","a","l"," ","d","e"," ">>, ph |-> ""], [lit |-> <<"{","t","o","t","a","l","}">>, ph |-> "total"], [lit |-> <<".">>, ph |-> ""]>>,
     reorder_success |-> <<[lit |-> <<"R","e","o","r","d","e","n"," ">>, ph |-> ""], [lit |-> <<"{","r","e","o","r","d","e","r","_","i","d","}">>, ph |-> "reorder_id"], [lit |-> <<" ","c","r","e","a","d","a"," ","p","a","r","a"," ">>, ph |-> ""], [lit |-> <<"{","q","u","a","n","t","i","t","y","}">>, ph |-> "quantity"], [lit |-> <<" ">>, ph |-> ""], [lit |-> <<"{","p","r","o","d","u","c","t","_","n","a","m","e","}">>, ph |-> "product_name"], [lit |-> <<"."," ","E","s","t","a","d","o",":"," ">>, ph |-> ""], [lit |-> <<"{","s","t","a","t","u","s","}">>, ph |-> "status"]>>,
     sales_prefix |-> <<[lit |-> <<"E","n"," ","l","o","s"," ","ú","l","t","i","m","o","s"," ">>, ph |-> ""], [lit |-> <<"{","d","a","y","s","}">>, ph |-> "days"], [lit |-> <<" ","d","í","a","s",",">>, ph |-> ""]>>,
     sales_sold |-> <<[lit |-> <<"v","e","n","d","i","s","t","e"," ">>, ph |-> ""], [lit |-> <<"{","q","u","a","n","t","i","t","y","}">>, ph |-> "quantity"], [lit |-> <<" ","a","r","t","í","c","u","l","o","s">>, ph |-> ""]>>,
     sales_revenue |-> <<[lit |-> <<"c","o","n"," ","u","n"," ","i","n","g","r","e","s","o"," ","t","o","t","a","l"," ","d","e"," ","$">>, ph |-> ""], [lit |-> <<"{","r","e","v","e","n","u","e",":",".","2","f","}">>, ph |-> "revenue"]>>,
     supplier_info |-> <<[lit |-> <<"E","l"," ","p","r","o","v","e","e","d","o","r"," ","e","s"," ">>, ph |-> ""], [lit |-> <<"{","n","a","m","e","}">>, ph |-> "name"], [lit |-> <<" ","c","o","n"," ","u","n"," ","t","i","e","m","p","o"," ","d","e"," ","e","n","t","r","e","g","a"," ","d","e"," ">>, ph |-> ""], [lit |-> <<"{","d","a","y","s","}">>, ph |-> "days"], [lit |-> <<" ","d","í","a","s",".">>, ph |-> ""]>>,
     delivery_status |-> <<[lit |-> <<"E","l"," ","e","s","t","a","d","o"," ","d","e","l"," ","p","e","d","i","d","o"," ","e","s"," ">>, ph |-> ""], [lit |-> <<"{","s","t","a","t","u","s","}">>, ph |-> "status"], [lit |-> <<".">>, ph |-> ""]>>,
     delivery_eta |-> <<[lit |-> <<"L","a"," ","f","e","c","h","a"," ","d","e"," ","e","n","t","r","e","g","a"," ","e","s","p","e","r","a","d","a"," ","e","s"," ">>, ph |-> ""], [lit |-> <<"{","e","t","a","}">>, ph |-> "eta"], [lit |-> <<".">>, ph |-> ""]>>,
     request_success |-> <<[lit |-> <<"S","o","l","i","c","i","t","u","d"," ","p","r","o","c","e","s","a","d","a"," ","e","x","i","t","o","s","a","m","e","n","t","e",".">>, ph |-> ""]>>
    ]
 ]

\* the languages of the phrase table
KnownLanguages == {<<"e","n">>, <<"e","s">>}

\* get_translation(language, key, **kwargs), language a value (None or a text);
\* kwargs maps field names to the text str.format puts in their place
get_translation(language, key, kwargs) ==
    LET l0 == IF Truthy(language) THEN Lower(language.str) ELSE <<"e","n">>
        lang == IF l0 \in KnownLanguages THEN l0 ELSE <<"e","n">>
        template == IF lang = <<"e","s">> THEN TRANSLATIONS.es[key] ELSE TRANSLATIONS.en[key]
        fields == {template[i].ph : i \in 1..Len(template)} \ {""}
    IN IF fields \subseteq DOMAIN kwargs
       THEN Flatten([i \in 1..Len(template) |->
                        IF template[i].ph = "" THEN template[i].lit
                        ELSE kwargs[template[i].ph]])
       \* except KeyError: return template
       ELSE Flatten([i \in 1..Len(template) |-> template[i].lit])

NoArgs == [k \in {} |-> <<>>]

\* " ".join(parts)
RECURSIVE Join(_)
Join(parts) == IF Len(parts) = 0 THEN <<>>
               ELSE IF Len(parts) = 1 THEN parts[1]
               ELSE parts[1] \o <<" ">> \o Join(Tail(parts))

\* "{:.2f}" of an amount counted in cents
FormatCents(c) == NatToStr(c \div 100) \o <<".">> \o TwoDigits(c % 100)

Spoken(text) == [raised |-> FALSE, exc |-> <<>>, speech |-> text]

SpeechRaised(text) == [raised |-> TRUE, exc |-> text, speech |-> <<>>]

\* the get_stock branch for exactly one item
StockSentence(item, lang) ==
    LET L == StrV(lang)
    IN IF item.name.kind # "str"
       THEN SpeechRaised(<<"u","n","s","u","p","p","o","r","t","e","d"," ","o","p","e","r","a","n","d"," ","t","y","p","e","(","s",")"," ","f","o","r"," ","+",":"," ","'">> \o TypeName(item.name)
                         \o <<"'"," ","a","n","d"," ","'","s","t","r","'">>)
       ELSE LET head == <<get_translation(L, "stock_prefix", NoArgs),
                          TextOf(item.quantity),
                          item.name.str \o (IF lang = <<"e","n">> THEN <<"s">> ELSE <<>>)>>
                color == IF Truthy(item.color)
                         THEN <<get_translation(L, "stock_color_prefix", NoArgs), TextOf(item.color)>>
                         ELSE <<>>
                size == IF Truthy(item.size)
                        THEN <<get_translation(L, "stock_size_prefix", NoArgs), TextOf(item.size)>>
                        ELSE <<>>
                speech == Join(head \o color \o size
                               \o <<get_translation(L, "stock_suffix", NoArgs)>>)
            IN IF (Truthy(item.color) /\ item.color.kind # "str")
                  \/ (Truthy(item.size) /\ item.size.kind # "str")
               THEN SpeechRaised(<<"s","e","q","u","e","n","c","e"," ","i","t","e","m",":"," ","e","x","p","e","c","t","e","d"," ","s","t","r"," ","i","n","s","t","a","n","c","e",","," ","i","n","t"," ","f","o","u","n","d">>)
               ELSE Spoken(IF item.low_stock
                           THEN speech \o <<" ">> \o get_translation(L, "low_stock_warning", NoArgs)
                           ELSE speech)

\* generate_speech(intent, result, language=language)
generate_speech(intent, result, language) ==
    LET lang == IF Truthy(language) THEN Lower(language.str) ELSE <<"e","n">>
        L == StrV(lang)
        failed == "error" \in DOMAIN result
    IN CASE intent = "get_stock" ->
              IF failed THEN Spoken(get_translation(L, "error_not_found", NoArgs))
              ELSE IF Len(result.items) = 0
              THEN Spoken(get_translation(L, "no_products", NoArgs))
              ELSE IF Len(result.items) = 1 THEN StockSentence(result.items[1], lang)
              ELSE Spoken(get_translation(L, "stock_multiple",
                     [count |-> NatToStr(Len(result.items)),
                      total |-> NatToStr(SumInts([i \in 1..Len(result.items) |->
                                                     result.items[i].quantity.int]))]))
         [] intent = "create_reorder" ->
              IF failed
              THEN IF result.error_message # <<>>
                   THEN IF Contains(Lower(result.error_message), <<"n","o","t"," ","f","o","u","n","d">>)
                        THEN Spoken(get_translation(L, "error_not_found", NoArgs))
                        ELSE Spoken(get_translation(L, "error_reorder", NoArgs)
                                    \o <<":"," ">> \o result.error_message)
                   ELSE Spoken(get_translation(L, "error_reorder", NoArgs))
              ELSE Spoken(get_translation(L, "reorder_success",
                     [reorder_id |-> IF "reorder_id" \in DOMAIN result
                                     THEN TextOf(result.reorder_id) ELSE <<"o","r","d","e","r">>,
                      quantity |-> IF "quantity" \in DOMAIN result
                                   THEN TextOf(result.quantity) ELSE <<"0">>,
                      product_name |-> IF "product_name" \in DOMAIN result
                                       THEN TextOf(result.product_name)
                                       ELSE IF lang = <<"e","n">> THEN <<"i","t","e","m","s">> ELSE <<"a","r","t","í","c","u","l","o","s">>,
                      status |-> IF "status" \in DOMAIN result
                                 THEN TextOf(result.status) ELSE <<"p","e","n","d","i","n","g">>]))
         [] intent = "get_sales_summary" ->
              IF failed THEN Spoken(get_translation(L, "error_sales", NoArgs))
              ELSE Spoken(Join(<<
                     get_translation(L, "sales_prefix", [days |-> NatToStr(result.window_days)]),
                     get_translation(L, "sales_sold", [quantity |-> NatToStr(result.total_quantity)]),
                     get_translation(L, "sales_revenue",
                                     [revenue |-> FormatCents(result.total_revenue)])>>))
         [] intent = "get_supplier_info" ->
              IF failed THEN Spoken(get_translation(L, "error_supplier", NoArgs))
              ELSE Spoken(get_translation(L, "supplier_info",
                     [name |-> IF "supplier_name" \in DOMAIN result
                               THEN TextOf(result.supplier_name)
                               ELSE IF lang = <<"e","n">> THEN <<"s","u","p","p","l","i","e","r">> ELSE <<"p","r","o","v","e","e","d","o","r">>,
                      days |-> IF "lead_time_days" \in DOMAIN result
                               THEN TextOf(result.lead_time_days) ELSE <<"0">>]))
         [] intent = "get_delivery_status" ->
              IF failed THEN Spoken(get_translation(L, "error_delivery", NoArgs))
              ELSE LET speech == get_translation(L, "delivery_status",
                         [status |-> IF "status" \in DOMAIN result
                                     THEN TextOf(result.status) ELSE <<"u","n","k","n","o","w","n">>])
                   IN Spoken(IF "eta" \in DOMAIN result /\ Truthy(result.eta)
                             THEN speech \o <<" ">>
                                  \o get_translation(L, "delivery_eta", [eta |-> TextOf(result.eta)])
                             ELSE speech)
         [] OTHER -> Spoken(get_translation(L, "request_success", NoArgs))

\* ------------------------------------------------------------- primary classifier
\* An intent as a classifier returns it: a text (kind "str"), None (kind "null")
\* or a JSON array (kind "list", not hashable).
IntentV(name) == [kind |-> "str", name |-> name]

NullIntent == [kind |-> "null", name |-> ""]

ListIntent == [kind |-> "list", name |-> ""]

AbsentField == [kind |-> "absent", name |-> ""]

\* The "entities" member of the reply: absent, a JSON object (map), null, a JSON
\* string (text) or a JSON array (items; an item is a [key, value] pair or not).
NoEntities == [kind |-> "absent", map |-> EmptyDict, text |-> <<>>, items |-> <<>>]

ObjectEntities(map) == [kind |-> "object", map |-> map, text |-> <<>>, items |-> <<>>]

NullEntities == [kind |-> "null", map |-> EmptyDict, text |-> <<>>, items |-> <<>>]

TextEntities(text) == [kind |-> "str", map |-> EmptyDict, text |-> text, items |-> <<>>]

ListEntities(items) == [kind |-> "list", map |-> EmptyDict, text |-> <<>>, items |-> items]

Pair(k, v) == [pair |-> TRUE, k |-> k, v |-> v]

NotAPair == [pair |-> FALSE, k |-> "", v |-> NullV]

\* dict.update(items): the pairs are stored one by one; an item that is no pair
\* raises and leaves the pairs before it in the dict
RECURSIVE UpdateFromItems(_, _)
UpdateFromItems(d, items) ==
    IF Len(items) = 0 THEN [raised |-> FALSE, d |-> d]
    ELSE IF ~Head(items).pair THEN [raised |-> TRUE, d |-> d]
    ELSE UpdateFromItems(Put(d, Head(items).k, Head(items).v), Tail(items))

\* entities.update(result.get("entities", {})) on the dict d
UpdateEntities(d, field) ==
    CASE field.kind = "object" -> [raised |-> FALSE, d |-> Update(d, field.map)]
      [] field.kind = "list" -> UpdateFromItems(d, field.items)
      [] field.kind = "str" -> [raised |-> field.text # <<>>, d |-> d]
      [] field.kind = "null" -> [raised |-> TRUE, d |-> d]
      [] OTHER -> [raised |-> FALSE, d |-> d]

\* parse_intent_openai(request) on the collaborator's reply (kind "fail": no reply
\* that parses as a JSON object): whether it raised, the parse result, and the
\* dict `entities` after it
parse_intent_openai(reply, entities) ==
    IF reply.kind = "fail" THEN [raised |-> TRUE, intent |-> NullIntent, entities |-> entities]
    ELSE LET u == UpdateEntities(entities, reply.entities)
         IN [raised |-> u.raised,
             intent |-> IF reply.intent.kind = "absent" THEN IntentV("get_stock")
                        ELSE reply.intent,
             entities |-> u.d]

\* ------------------------------------------------------------- intent router
INTENT_HANDLERS == {"get_stock", "create_reorder", "get_sales_summary",
                    "get_supplier_info", "get_delivery_status"}

\* INTENT_HANDLERS[intent](entities)
Handle(intent, entities, db, t, c, cfault, fault, today, uid) ==
    CASE intent = "get_stock" -> handle_get_stock(entities, db, t, c, cfault, fault, today, uid)
      [] intent = "create_reorder" ->
             handle_create_reorder(entities, db, t, c, cfault, fault, today, uid)
      [] intent = "get_sales_summary" ->
             handle_get_sales_summary(entities, db, t, c, cfault, fault, today, uid)
      [] intent = "get_supplier_info" ->
             handle_get_supplier_info(entities, db, t, c, cfault, fault, today, uid)
      [] OTHER -> handle_get_delivery_status(entities, db, t, c, cfault, fault, today, uid)

\* No value yet (a local variable not assigned, a response not returned).
NoParsed == [intent |-> NullIntent, entities |-> EmptyDict]

NoResponse == [ok |-> FALSE, intent |-> NullIntent, entities |-> EmptyDict,
               result |-> EmptyDict, speech |-> <<>>]

NoMet == [db |-> [inventory |-> <<>>, sales |-> <<>>, orders |-> <<>>],
          client |-> FALSE, tasks |-> <<>>,
          cfault |-> [fails |-> FALSE, text |-> <<>>],
          fault |-> NoFault, today |-> 0, uid |-> <<>>]

NoOp == [raised |-> FALSE, exc |-> <<>>, result |-> EmptyDict, tasks |-> <<>>,
         client |-> FALSE, queries |-> 0, caught |-> {}]

\* language = request.language or settings.DEFAULT_LANGUAGE
Language == IF Truthy(request.language) THEN request.language
            ELSE StrV(settings.DEFAULT_LANGUAGE)

\* `entities = request.entities or {}`: a non-empty mapping is the request's own
\* dict object, so what the classifier writes into it is written into the request;
\* an empty one is replaced by a fresh dict.
Aliased(req) == DOMAIN req.entities # {}

\* Envelope with an operation's error marker counted as a failure of the request
EnvelopeFailsOnMarker(ok, intent, entities, result, speech) ==
    [ok |-> ok /\ "error_message" \notin DOMAIN result, intent |-> intent,
     entities |-> entities, result |-> result, speech |-> speech]

\* OMIResponse(...): pydantic validates `intent: str`
Envelope(ok, intent, entities, result, speech) ==
    [ok |-> ok, intent |-> intent, entities |-> entities, result |-> result, speech |-> speech]

\* the speech of the `except Exception as e` arm around the handler call
HandlerErrorSpeech(error_message) ==
    LET m == Lower(error_message)
    IN IF Contains(m, <<"n","o","t"," ","f","o","u","n","d">>)
       THEN get_translation(Language, "error_not_found", NoArgs)
       ELSE IF Contains(m, <<"c","o","n","n","e","c","t","i","o","n">>) \/ Contains(m, <<"t","i","m","e","o","u","t">>)
       THEN get_translation(Language, "error_generic", NoArgs) \o <<" ">>
            \o get_translation(Language, "error_parse", NoArgs)
       ELSE get_translation(Language, "error_generic", NoArgs)

\* ------------------------------------------------------------- inputs
\* The events, the collaborator's replies and the stores the specification runs
\* route_intent on.
Transcripts == {<<"D","o"," ","w","e"," ","h","a","v","e"," ","l","a","r","g","e"," ","r","e","d"," ","h","o","o","d","i","e","s">>,
                <<"R","e","s","t","o","c","k"," ","2","5"," ","b","l","a","c","k"," ","j","e","a","n","s">>,
                <<"S","h","o","w"," ","m","e"," ","s","a","l","e","s"," ","s","u","m","m","a","r","y"," ","f","o","r"," ","t","h","e"," ","l","a","s","t"," ","w","e","e","k">>,
                <<"W","h","o"," ","s","u","p","p","l","i","e","s"," ","p","r","o","d","u","c","t"," ","1","0","0","1">>,
                <<"W","h","a","t","'","s"," ","t","h","e"," ","d","e","l","i","v","e","r","y"," ","s","t","a","t","u","s"," ","f","o","r"," ","o","r","d","e","r"," ","1","2","3","4","5","?">>,
                <<>>}

DeviceEntities == {EmptyDict,
                   [k \in {"name"} |-> StrV(<<"h","o","o","d","i","e">>)],
                   [k \in {"product_id", "quantity"} |->
                        IF k = "product_id" THEN StrV(<<"P","0","0","1">>) ELSE IntV(3)]}

Languages == {NullV, StrV(<<"E","S">>), StrV(<<"f","r">>)}

Reply(intent, entities) == [kind |-> "json", intent |-> intent, entities |-> entities]

\* no reply that parses as a JSON object: the call failed, or its content is no JSON
NoReply == [kind |-> "fail", intent |-> AbsentField, entities |-> NoEntities]

Replies ==
    {NoReply,
     Reply(AbsentField, NoEntities),
     Reply(IntentV("get_stock"), ObjectEntities([k \in {"color"} |-> StrV(<<"r","e","d">>)])),
     Reply(IntentV("create_reorder"),
           ObjectEntities([k \in {"name", "quantity"} |->
                              IF k = "name" THEN StrV(<<"j","e","a","n","s">>) ELSE IntV(25)])),
     Reply(IntentV("get_sales_summary"), ObjectEntities([k \in {"window_days"} |-> IntV(30)])),
     Reply(IntentV("get_supplier_info"), ObjectEntities([k \in {"product_id"} |-> StrV(<<"P","0","0","2">>)])),
     Reply(IntentV("get_delivery_status"), ObjectEntities(EmptyDict)),
     Reply(IntentV("unknown_intent"), ObjectEntities([k \in {"name"} |-> StrV(<<"c","a","p">>)])),
     Reply(NullIntent, NoEntities),
     Reply(ListIntent, NoEntities),
     Reply(IntentV("get_stock"), NullEntities),
     Reply(IntentV("get_stock"), TextEntities(<<"r","e","d">>)),
     Reply(IntentV("get_stock"), ListEntities(<<Pair("color", StrV(<<"r","e","d">>))>>)),
     Reply(IntentV("get_stock"), ListEntities(<<Pair("color", StrV(<<"r","e","d">>)), NotAPair>>))}

InventoryRow(product_id, name, category, color, size, quantity, threshold, supplier_id) ==
    [product_id |-> product_id, name |-> name, category |-> category, color |-> color,
     size |-> size, stock_quantity |-> quantity, reorder_threshold |-> threshold,
     location |-> NullV, selling_price |-> NullV, supplier_id |-> supplier_id]

SaleRow(sale_date, quantity_sold, revenue) ==
    [sale_date |-> sale_date, quantity_sold |-> quantity_sold, revenue |-> revenue]

OrderRow(purchase_order_id, supplier_id, supplier_name, status, order_date, delivery_date) ==
    [purchase_order_id |-> purchase_order_id, supplier_id |-> supplier_id,
     supplier_name |-> supplier_name, contact_name |-> NullV, contact_email |-> NullV,
     phone_number |-> NullV, city |-> NullV, state |-> NullV,
     product_categories_supplied |-> NullV, status |-> status, order_date |-> order_date,
     delivery_date |-> delivery_date, total_cost |-> NullV, payment_status |-> NullV]

EmptyStore == [inventory |-> <<>>, sales |-> <<>>, orders |-> <<>>]

ShopStore ==
    [inventory |->
        <<InventoryRow(StrV(<<"P","0","0","1">>), StrV(<<"H","o","o","d","i","e">>), StrV(<<"T","o","p","s">>), StrV(<<"R","e","d">>),
                       StrV(<<"l">>), IntV(3), IntV(5), StrV(<<"S","U","P","-","0","0","7">>)),
          InventoryRow(StrV(<<"P","0","0","2">>), StrV(<<"J","e","a","n","s">>), StrV(<<"B","o","t","t","o","m","s">>), StrV(<<"B","l","a","c","k">>),
                       StrV(<<"M">>), IntV(40), IntV(10), StrV(<<"S","U","P","-","0","1","2">>))>>,
     sales |->
        <<SaleRow(StrV(<<"2","0","2","4","-","0","1","-","1","4">>), IntV(1), IntV(2550)),
          SaleRow(StrV(<<"2","0","2","4","-","0","1","-","2","0">>), IntV(2), IntV(5000)),
          SaleRow(StrV(<<"2","0","2","3","-","1","2","-","2","5">>), IntV(4), IntV(10000))>>,
     orders |->
        <<OrderRow(StrV(<<"1","2","3","4","5">>), StrV(<<"S","U","P","0","0","0","0","7">>), StrV(<<"A","c","m","e"," ","T","e","x","t","i","l","e","s">>),
                   StrV(<<"S","h","i","p","p","e","d">>), StrV(<<"2","0","2","4","-","0","1","-","1","0">>), StrV(<<"2","0","2","4","-","0","2","-","1","5">>)),
          OrderRow(StrV(<<"P","O","-","2">>), StrV(<<"S","U","P","0","0","0","1","2">>), StrV(<<"D","e","n","i","m"," ","C","o">>),
                   StrV(<<"P","e","n","d","i","n","g">>), StrV(<<"2","0","2","4","-","0","1","-","1","8">>), NullV)>>]

\* a store with missing values: a product without name, a stock count that is
\* NULL, a sale without quantity, dates that are no dates
OddStore ==
    [inventory |->
        <<InventoryRow(StrV(<<"P","0","0","1">>), NullV, NullV, StrV(<<"R","e","d">>), NullV,
                       IntV(7), IntV(2), NullV),
          InventoryRow(StrV(<<"P","0","0","2">>), StrV(<<"J","e","a","n","s">>), NullV, StrV(<<"B","l","a","c","k">>), NullV,
                       NullV, IntV(10), IntV(12))>>,
     sales |->
        <<SaleRow(StrV(<<"2","0","2","4","-","0","1","-","2","0","T","1","0",":","3","0",":","0","0">>), NullV, NullV),
          SaleRow(StrV(<<"2","0","2","4","-","0","1","-","1","9">>), IntV(2), NullV)>>,
     orders |->
        <<OrderRow(StrV(<<"1","2","3","4","5">>), NullV, NullV, StrV(<<"P","e","n","d","i","n","g">>), NullV, StrV(<<"s","o","o","n">>))>>]

Stores == {EmptyStore, ShopStore, OddStore}

ExceptionTexts == {<<"C","o","n","n","e","c","t","i","o","n"," ","r","e","f","u","s","e","d">>, <<"r","e","l","a","t","i","o","n"," ","n","o","t"," ","f","o","u","n","d">>, <<"p","e","r","m","i","s","s","i","o","n"," ","d","e","n","i","e","d">>}

ClientFaults == {[fails |-> FALSE, text |-> <<>>],
                 [fails |-> TRUE, text |-> <<"s","u","p","a","b","a","s","e","_","u","r","l"," ","i","s"," ","r","e","q","u","i","r","e","d">>]}

Faults == {NoFault, NoEcho} \cup {RaiseAt(n, text) : n \in 1..2, text \in ExceptionTexts}

\* 2024-02-08
Days == {70}

Uuids == {<<"3","f","2","a","1","b">>, <<"c","0","f","f","e","e">>}

\* the language field of an event that carries none
NoLanguage == [kind |-> "absent", str |-> <<>>, int |-> 0]

\* OMIEventRequest.language: Field("en", ...) stands in when the event carries none
SchemaLanguage(l) == IF l.kind = "absent" THEN StrV(<<"e","n">>) ELSE l

\* no request in flight; _supabase_client = None (handle 0)
NoConn == [handle |-> 0, runs |-> 0, made |-> 0, at |-> <<>>, got |-> <<>>]

NoSpoken == [language |-> NoLanguage, out |-> Spoken(<<>>)]

\* route_intent(request) is called
Receive ==
    /\ pc = "idle"
    /\ \E t \in Transcripts : \E e \in DeviceEntities : \E l \in Languages :
          /\ request' = [transcript |-> t, entities |-> e, language |-> l]
          /\ received' = e
    /\ pc' = "classify"
    /\ UNCHANGED <<settings, parsed, response, client, tasks, trace, heard, met, op, history, spoken, conn>>

\* parsed = parse_intent_openai(request), with whatever the collaborator replies
PrimaryClassify ==
    /\ pc = "classify"
    /\ settings.INTENT_PROVIDER = "openai"
    /\ \E reply \in Replies :
          LET out == parse_intent_openai(reply, request.entities)
          IN /\ heard' = reply
             /\ request' = IF Aliased(request)
                            THEN [request EXCEPT !.entities = out.entities]
                            ELSE request
             /\ IF out.raised
                THEN /\ pc' = "fallback"
                     /\ trace' = trace \o <<"parse_intent_openai", "raised">>
                     /\ UNCHANGED parsed
                ELSE /\ pc' = "lookup"
                     /\ trace' = Append(trace, "parse_intent_openai")
                     /\ parsed' = [intent |-> out.intent, entities |-> out.entities]
    /\ UNCHANGED <<received, settings, response, client, tasks, met, op, history, spoken, conn>>

\* RulesTurn without the provider test: the rule-based classifier also runs in
\* openai mode before the primary classifier was tried
RulesTurnAnyMode == pc = "classify" \/ pc = "fallback"

\* parse_intent_rules is called in rules mode (the `else` of the provider test),
\* or in the `except` of the call of the primary classifier
RulesTurn ==
    \/ pc = "classify" /\ settings.INTENT_PROVIDER # "openai"
    \/ pc = "fallback"

\* what the classifier handed back (out) becomes parsed; the entities it wrote are
\* in the request's own mapping when the two are one object
Classified(out) ==
    /\ parsed' = [intent |-> IntentV(out.intent), entities |-> out.entities]
    /\ request' = IF Aliased(request)
                   THEN [request EXCEPT !.entities = out.entities]
                   ELSE request

\* parsed = parse_intent_rules(request)
RulesClassify ==
    /\ RulesTurn
    /\ Classified(parse_intent_rules(request.transcript, request.entities))
    /\ pc' = "lookup"
    /\ trace' = Append(trace, "parse_intent_rules")
    /\ UNCHANGED <<received, settings, response, client, tasks, heard, met, op, history, spoken, conn>>

Registered(intent) == intent.kind = "str" /\ intent.name \in INTENT_HANDLERS

\* handler = INTENT_HANDLERS.get(intent) finds nothing, or raises
Unregistered ==
    /\ pc = "lookup"
    /\ ~Registered(parsed.intent)
    /\ IF parsed.intent.kind = "str"
       THEN /\ pc' = "done"
            /\ response' = Envelope(FALSE, parsed.intent, parsed.entities,
                                    \* f"Unknown intent: {intent}", the intent as one piece of text
                                    [error |-> <<"U","n","k","n","o","w","n"," ","i","n","t","e","n","t",":"," ">> \o <<parsed.intent.name>>],
                                    get_translation(Language, "error_unknown_intent", NoArgs))
       \* a list is not hashable (TypeError in dict.get); None is no `intent: str`
       \* (ValidationError in OMIResponse): both outside every try
       ELSE /\ pc' = "raised"
            /\ UNCHANGED response
    /\ UNCHANGED <<request, received, settings, parsed, client, tasks, trace, heard, met, op, history, spoken, conn>>

\* The envelope for what the handler handed back (outcome o) and what
\* generate_speech made of its result (sp): ok=True, or the `except` arm when
\* either of them raised.
Delivered(intent, entities, o, sp) ==
    IF o.raised
    THEN Envelope(FALSE, intent, entities, [error |-> o.exc], HandlerErrorSpeech(o.exc))
    ELSE IF sp.raised
    THEN Envelope(FALSE, intent, entities, [error |-> sp.exc], HandlerErrorSpeech(sp.exc))
    ELSE Envelope(TRUE, intent, entities, o.result, sp.speech)

\* try: result = await handler(entities); speech = generate_speech(...); return
\* OMIResponse(ok=True, ...)  except Exception as e: ...
Answer(intent, entities, language, o) ==
    Delivered(intent, entities, o, generate_speech(intent.name, o.result, language))

\* the effect of the handler call on the process and the envelope returned
Finish(m, o) ==
    /\ met' = m
    /\ op' = o
    /\ tasks' = o.tasks
    /\ client' = o.client
    /\ response' = Answer(parsed.intent, parsed.entities, Language, o)

\* result = await handler(entities), the speech and the envelope
Invoke ==
    /\ pc = "lookup"
    /\ Registered(parsed.intent)
    /\ \E db \in Stores : \E cfault \in ClientFaults : \E fault \in Faults :
       \E today \in Days : \E uid \in Uuids \cup {<<>>} :
          \* create_client is only called when there is no client yet, and only
          \* create_reorder draws a uuid
          /\ cfault.fails => ~client
          /\ (parsed.intent.name = "create_reorder") <=> (uid # <<>>)
          /\ Finish([db |-> db, client |-> client, tasks |-> tasks, cfault |-> cfault,
                     fault |-> fault, today |-> today, uid |-> uid],
                    Handle(parsed.intent.name, parsed.entities, db, tasks, client,
                           cfault, fault, today, uid))
    /\ pc' = "done"
    /\ trace' = Append(trace, "handler")
    /\ UNCHANGED <<request, received, settings, parsed, heard, history, spoken, conn>>

Init ==
    /\ pc = "idle"
    /\ settings \in [INTENT_PROVIDER : {"openai", "rules"}, DEFAULT_LANGUAGE : {<<"e","n">>}]
    /\ client \in BOOLEAN
    /\ tasks = <<>>
    /\ request = [transcript |-> <<>>, entities |-> EmptyDict, language |-> NullV]
    /\ received = EmptyDict
    /\ parsed = NoParsed
    /\ response = NoResponse
    /\ trace = <<>>
    /\ heard = NoReply
    /\ met = NoMet
    /\ op = NoOp
    /\ history = <<>>
    /\ conn = NoConn
    /\ spoken = NoSpoken

Next == Receive \/ PrimaryClassify \/ RulesClassify \/ Unregistered \/ Invoke

\* One call of route_intent, from a process that may or may not hold a store
\* client already.
Spec == Init /\ [][Next]_vars

\* ------------------------------------------- inputs of the classifier specification
Phrases == <<<<"d","o"," ","w","e"," ","h","a","v","e"," ">>, <<"R","e","s","t","o","c","k"," ">>, <<"s","a","l","e","s"," ","s","u","m","m","a","r","y"," ">>, <<"s","u","p","p","l","i","e","r"," ">>,
             <<"d","e","l","i","v","e","r","y"," ","s","t","a","t","u","s"," ">>, <<"r","e","d"," ">>, <<"l","a","r","g","e"," ">>, <<"2","5"," ","u","n","i","t","s"," ">>, <<"1","2","3","4","5">>,
             <<"w","e","e","k">>, <<"m","o","n","t","h">>, <<"d","a","y"," ","3","0">>, <<"O","r","d","e","r"," ">>, <<"m","o","r","e"," ">>, <<"7">>,
             <<"r","e","o","r","d","e","r"," ","4","0"," ">>>>

\* every concatenation of at most MaxPhrases phrases (the empty transcript included)
RuleTranscripts ==
    {Flatten([i \in 1..Len(c) |-> Phrases[c[i]]]) :
        c \in UNION {[1..k -> 1..Len(Phrases)] : k \in 0..MaxPhrases}}

InitRules ==
    /\ pc = "classify"
    /\ settings = [INTENT_PROVIDER |-> "rules", DEFAULT_LANGUAGE |-> <<"e","n">>]
    /\ \E t \in RuleTranscripts : \E e \in DeviceEntities :
          /\ request = [transcript |-> t, entities |-> e, language |-> StrV(<<"e","n">>)]
          /\ received = e
    /\ parsed = NoParsed
    /\ response = NoResponse
    /\ client = FALSE
    /\ tasks = <<>>
    /\ trace = <<>>
    /\ heard = NoReply
    /\ met = NoMet
    /\ op = NoOp
    /\ history = <<>>
    /\ conn = NoConn
    /\ spoken = NoSpoken

NextRules == RulesClassify

\* The rule-based classifier alone, on every transcript built from the phrases.
SpecRules == InitRules /\ [][NextRules]_vars

\* ------------------------------------------- inputs of the operations specification
\* Number of data operations called one after the other.
MaxCalls == 2

\* the shop when its latest sale carries a time of day and every other sale is
\* older than a day
StaleStore ==
    [ShopStore EXCEPT !.sales =
        <<SaleRow(StrV(<<"2","0","2","4","-","0","1","-","2","0","T","1","0",":","3","0",":","0","0">>), IntV(1), IntV(1000)),
          SaleRow(StrV(<<"2","0","2","4","-","0","1","-","1","0">>), IntV(2), IntV(5000))>>]

\* the shop when the sale of the latest day has no quantity and the one of the
\* day before no revenue
GapStore ==
    [ShopStore EXCEPT !.sales =
        <<SaleRow(StrV(<<"2","0","2","4","-","0","1","-","2","0">>), NullV, IntV(1000)),
          SaleRow(StrV(<<"2","0","2","4","-","0","1","-","1","9">>), IntV(2), NullV)>>]

OpStores == {ShopStore, StaleStore, GapStore}

OpFaults == {NoFault, NoEcho, RaiseAt(1, <<"C","o","n","n","e","c","t","i","o","n"," ","r","e","f","u","s","e","d">>)}

\* handler(entities), for a handler of INTENT_HANDLERS
OpCall(intent, entities) == [intent |-> intent, entities |-> entities]

OpCalls ==
    {OpCall("get_stock", EmptyDict),
     OpCall("get_stock", [k \in {"name"} |-> StrV(<<"h","o","o","d","i","e">>)]),
     OpCall("create_reorder", [k \in {"name"} |-> StrV(<<"h","o","o","d","i","e">>)]),
     OpCall("create_reorder", [k \in {"name"} |-> StrV(<<"c","a","p">>)]),
     OpCall("create_reorder", [k \in {"quantity"} |-> IntV(25)]),
     OpCall("create_reorder", [k \in {"product_id", "quantity"} |->
                                  IF k = "product_id" THEN StrV(<<"P","0","0","2">>) ELSE IntV(3)]),
     OpCall("get_sales_summary", [k \in {"window_days"} |-> IntV(1)]),
     OpCall("get_sales_summary", EmptyDict),
     OpCall("get_supplier_info", [k \in {"product_id"} |-> StrV(<<"P","0","0","1">>)]),
     OpCall("get_delivery_status", EmptyDict),
     OpCall("get_delivery_status", [k \in {"purchase_order_id"} |-> StrV(<<"1","2","3","4","5">>)])}

\* one call as history keeps it: the task table before it and its outcome
CallRecord(c, uid, before, o) ==
    [intent |-> c.intent, entities |-> c.entities, uid |-> uid, before |-> before, op |-> o]

\* the effect of the call on the process, and its record
Called(c, uid, o) ==
    /\ op' = o
    /\ tasks' = o.tasks
    /\ client' = o.client
    /\ parsed' = [intent |-> IntentV(c.intent), entities |-> c.entities]
    /\ history' = Append(history, CallRecord(c, uid, tasks, o))

\* result = await handler(entities), called on the store of the behaviour
Call ==
    /\ Len(history) < MaxCalls
    /\ \E c \in OpCalls : \E uid \in Uuids \cup {<<>>} :
          \* only create_reorder draws a uuid
          /\ (c.intent = "create_reorder") <=> (uid # <<>>)
          /\ Called(c, uid, Handle(c.intent, c.entities, met.db, tasks, client,
                                   met.cfault, met.fault, met.today, uid))
    /\ UNCHANGED <<pc, request, received, settings, response, trace, heard, met, spoken, conn>>

InitOps ==
    /\ pc = "lookup"
    /\ settings = [INTENT_PROVIDER |-> "rules", DEFAULT_LANGUAGE |-> <<"e","n">>]
    /\ client \in BOOLEAN
    /\ \E db \in OpStores : \E cfault \in ClientFaults : \E fault \in OpFaults :
       \E today \in Days :
          \* create_client is only called when there is no client yet
          /\ cfault.fails => ~client
          /\ met = [db |-> db, client |-> client, tasks |-> <<>>, cfault |-> cfault,
                    fault |-> fault, today |-> today, uid |-> <<>>]
    /\ tasks = <<>>
    /\ request = [transcript |-> <<>>, entities |-> EmptyDict, language |-> NullV]
    /\ received = EmptyDict
    /\ parsed = NoParsed
    /\ response = NoResponse
    /\ trace = <<>>
    /\ heard = NoReply
    /\ op = NoOp
    /\ history = <<>>
    /\ conn = NoConn
    /\ spoken = NoSpoken

NextOps == Call

\* The data operations called directly, one after the other, on one store; what
\* the store does (its rows, whether it raises, whether a client can be made)
\* is fixed for the behaviour.
SpecOps == InitOps /\ [][NextOps]_vars

\* ------------------------------------------- inputs of the speech specification
SentLanguages == {NoLanguage, NullV, StrV(<<"e","s">>), StrV(<<"f","r">>), StrV(<<"E","N">>)}

DefaultLanguages == {<<"e","n">>, <<"e","s">>}

SpeechCalls == OpCalls \cup {OpCall("get_stock", [k \in {"color"} |-> StrV(<<"r","e","d">>)])}

SpeechStores == {EmptyStore, ShopStore, OddStore}

\* the event with language l, and the result o that its handler returned
Resulted(c, l, o) ==
    /\ request = [transcript |-> <<>>, entities |-> c.entities,
                  language |-> SchemaLanguage(l)]
    /\ received = c.entities
    /\ parsed = [intent |-> IntentV(c.intent), entities |-> c.entities]
    /\ op = o
    /\ tasks = o.tasks
    /\ spoken = [language |-> l, out |-> Spoken(<<>>)]

InitSpeech ==
    /\ pc = "lookup"
    /\ settings \in [INTENT_PROVIDER : {"rules"}, DEFAULT_LANGUAGE : DefaultLanguages]
    /\ client = TRUE
    /\ \E db \in SpeechStores : \E fault \in OpFaults : \E today \in Days :
          /\ met = [db |-> db, client |-> TRUE, tasks |-> <<>>,
                    cfault |-> [fails |-> FALSE, text |-> <<>>],
                    fault |-> fault, today |-> today, uid |-> <<"3","f","2","a","1","b">>]
          /\ \E c \in SpeechCalls : \E l \in SentLanguages :
                Resulted(c, l, Handle(c.intent, c.entities, db, <<>>, TRUE,
                                      [fails |-> FALSE, text |-> <<>>], fault, today,
                                      <<"3","f","2","a","1","b">>))
    /\ response = NoResponse
    /\ trace = <<>>
    /\ heard = NoReply
    /\ history = <<>>
    /\ conn = NoConn

\* speech = generate_speech(intent, result, language=language), with
\* language = request.language or settings.DEFAULT_LANGUAGE
Speak ==
    /\ pc = "lookup"
    /\ spoken' = [spoken EXCEPT !.out = generate_speech(parsed.intent.name, op.result,
                                                        Language)]
    /\ pc' = "done"
    /\ UNCHANGED <<request, received, settings, parsed, response, client, tasks, trace,
                   heard, met, op, history, conn>>

NextSpeech == Speak

\* generate_speech on every result the data operations return on the stores, in
\* every language an event can carry, under either default language.
SpecSpeech == InitSpeech /\ [][NextSpeech]_vars

\* ------------------------------------------- inputs of the delivery specification
\* the shop with a longer order book: seven open orders and a delivered one, not
\* in the order of their dates, two of them of one supplier, delivery dates
\* missing or no dates
DepotStore ==
    [ShopStore EXCEPT !.orders =
        <<OrderRow(StrV(<<"P","O","-","1">>), StrV(<<"S","U","P","0","0","0","0","7">>), StrV(<<"A","c","m","e"," ","T","e","x","t","i","l","e","s">>),
                   StrV(<<"S","h","i","p","p","e","d">>), StrV(<<"2","0","2","4","-","0","1","-","1","0">>), StrV(<<"2","0","2","4","-","0","2","-","1","5">>)),
          OrderRow(StrV(<<"P","O","-","2">>), StrV(<<"S","U","P","0","0","0","1","2">>), StrV(<<"D","e","n","i","m"," ","C","o">>),
                   StrV(<<"P","e","n","d","i","n","g">>), StrV(<<"2","0","2","4","-","0","1","-","1","8">>), NullV),
          OrderRow(StrV(<<"P","O","-","3">>), StrV(<<"S","U","P","0","0","0","0","7">>), StrV(<<"A","c","m","e"," ","T","e","x","t","i","l","e","s">>),
                   StrV(<<"P","e","n","d","i","n","g">>), StrV(<<"2","0","2","4","-","0","1","-","2","5">>), StrV(<<"s","o","o","n">>)),
          OrderRow(StrV(<<"P","O","-","4">>), StrV(<<"S","U","P","0","0","0","3","1">>), StrV(<<"W","o","o","l"," ","W","o","r","k","s">>),
                   StrV(<<"D","e","l","i","v","e","r","e","d">>), StrV(<<"2","0","2","4","-","0","1","-","3","0">>), StrV(<<"2","0","2","4","-","0","2","-","0","2">>)),
          OrderRow(StrV(<<"P","O","-","5">>), StrV(<<"S","U","P","0","0","0","3","1">>), StrV(<<"W","o","o","l"," ","W","o","r","k","s">>),
                   StrV(<<"P","e","n","d","i","n","g">>), StrV(<<"2","0","2","4","-","0","1","-","0","5">>), StrV(<<"2","0","2","4","-","0","2","-","0","1">>)),
          OrderRow(StrV(<<"P","O","-","6">>), StrV(<<"S","U","P","0","0","0","4","4">>), StrV(<<"C","a","p"," ","C","o","r","n","e","r">>),
                   StrV(<<"S","h","i","p","p","e","d">>), StrV(<<"2","0","2","4","-","0","1","-","2","2">>), StrV(<<"2","0","2","4","-","0","2","-","2","0">>)),
          OrderRow(StrV(<<"P","O","-","7">>), StrV(<<"S","U","P","0","0","0","4","4">>), StrV(<<"C","a","p"," ","C","o","r","n","e","r">>),
                   StrV(<<"P","e","n","d","i","n","g">>), StrV(<<"2","0","2","4","-","0","1","-","0","2">>), NullV),
          OrderRow(StrV(<<"P","O","-","8">>), StrV(<<"S","U","P","0","0","0","1","2">>), StrV(<<"D","e","n","i","m"," ","C","o">>),
                   StrV(<<"S","h","i","p","p","e","d">>), StrV(<<"2","0","2","4","-","0","1","-","2","8">>), StrV(<<"2","0","2","4","-","0","2","-","0","9">>))>>]

DeliveryStores == {EmptyStore, ShopStore, OddStore, DepotStore}

\* entities with a purchase_order_id and a supplier_id, each left out when null
DeliveryEntities ==
    {[k \in {x \in {"purchase_order_id"} : po # NullV} \cup {x \in {"supplier_id"} : su # NullV}
         |-> IF k = "purchase_order_id" THEN po ELSE su] :
        po \in {NullV, StrV(<<"1","2","3","4","5">>), StrV(<<"P","O","-","3">>), StrV(<<"P","O","-","9">>)},
        su \in {NullV, StrV(<<"S","U","P","0","0","0","0","7">>), StrV(<<"S","U","P","0","0","0","9","9">>)}}

InitDelivery ==
    /\ pc = "lookup"
    /\ settings = [INTENT_PROVIDER |-> "rules", DEFAULT_LANGUAGE |-> <<"e","n">>]
    /\ client = FALSE
    /\ \E db \in DeliveryStores : \E fault \in {NoFault, RaiseAt(1, <<"C","o","n","n","e","c","t","i","o","n"," ","r","e","f","u","s","e","d">>)} :
       \E today \in Days :
          met = [db |-> db, client |-> FALSE, tasks |-> <<>>,
                 cfault |-> [fails |-> FALSE, text |-> <<>>],
                 fault |-> fault, today |-> today, uid |-> <<>>]
    /\ \E e \in DeliveryEntities :
          /\ parsed = [intent |-> IntentV("get_delivery_status"), entities |-> e]
          /\ request = [transcript |-> <<>>, entities |-> e, language |-> StrV(<<"e","n">>)]
          /\ received = e
    /\ tasks = <<>>
    /\ response = NoResponse
    /\ trace = <<>>
    /\ heard = NoReply
    /\ op = NoOp
    /\ history = <<>>
    /\ conn = NoConn
    /\ spoken = NoSpoken

\* what handle_get_delivery_status handed back, and its effect on the process
Answered(o) ==
    /\ op' = o
    /\ tasks' = o.tasks
    /\ client' = o.client

\* result = await handle_get_delivery_status(entities)
Deliver ==
    /\ pc = "lookup"
    /\ Answered(handle_get_delivery_status(parsed.entities, met.db, tasks, client,
                                           met.cfault, met.fault, met.today, <<>>))
    /\ pc' = "done"
    /\ UNCHANGED <<request, received, settings, parsed, response, trace, heard, met,
                   history, spoken, conn>>

NextDelivery == Deliver

\* handle_get_delivery_status on every combination of the two order locators, on
\* every order book.
SpecDelivery == InitDelivery /\ [][NextDelivery]_vars

\* --------------------------------------------- the client singleton among requests
\* Number of requests in flight at once.
MaxRequests == 3

Requests == 1..MaxRequests

\* a get_supabase_client that hands out a new client and keeps none
get_supabase_client_unkept(handle, made, fails) ==
    IF fails
    THEN [raised |-> TRUE, handle |-> handle, returned |-> 0, ran |-> 1, made |-> made]
    ELSE [raised |-> FALSE, handle |-> handle, returned |-> made + 1, ran |-> 1,
          made |-> made + 1]

\* get_supabase_client() with _supabase_client = handle (0 is None), when `made`
\* clients were constructed so far and create_client raises or not: the handle
\* held afterwards, the one returned, and whether the constructor ran. The
\* function has no await: no other coroutine runs between its test and its
\* assignment.
get_supabase_client(handle, made, fails) ==
    IF handle # 0
    THEN [raised |-> FALSE, handle |-> handle, returned |-> handle, ran |-> 0, made |-> made]
    ELSE IF fails
    THEN [raised |-> TRUE, handle |-> 0, returned |-> 0, ran |-> 1, made |-> made]
    ELSE [raised |-> FALSE, handle |-> made + 1, returned |-> made + 1, ran |-> 1,
          made |-> made + 1]

InitClient ==
    /\ pc = "serving"
    /\ settings = [INTENT_PROVIDER |-> "rules", DEFAULT_LANGUAGE |-> <<"e","n">>]
    /\ client = FALSE
    /\ request = [transcript |-> <<>>, entities |-> EmptyDict, language |-> NullV]
    /\ received = EmptyDict
    /\ parsed = NoParsed
    /\ met = NoMet
    /\ tasks = <<>>
    /\ response = NoResponse
    /\ trace = <<>>
    /\ heard = NoReply
    /\ op = NoOp
    /\ history = <<>>
    /\ spoken = NoSpoken
    /\ conn = [NoConn EXCEPT !.at = [r \in Requests |-> "route"],
                             !.got = [r \in Requests |-> {}]]

\* request r called get_supabase_client with outcome g and moves on to `next`
Got(r, g, next) ==
    /\ conn' = [handle |-> g.handle,
                runs |-> conn.runs + g.ran,
                made |-> g.made,
                at |-> [conn.at EXCEPT ![r] = next],
                got |-> [conn.got EXCEPT ![r] = IF g.raised THEN @ ELSE @ \cup {g.returned}]]
    /\ client' = (g.handle # 0)

\* omi_event of request r: await route_intent(event) calls the handler, which
\* calls get_supabase_client(); an exception of it ends in route_intent's except
Routed(r) ==
    /\ conn.at[r] = "route"
    /\ \E fails \in BOOLEAN : Got(r, get_supabase_client(conn.handle, conn.made, fails), "log")
    /\ UNCHANGED <<pc, request, received, settings, parsed, response, tasks, trace,
                   heard, met, op, history, spoken>>

\* omi_event of request r: route_intent found no handler for the intent, no
\* store call
Unrouted(r) ==
    /\ conn.at[r] = "route"
    /\ conn' = [conn EXCEPT !.at[r] = "log"]
    /\ UNCHANGED <<pc, request, received, settings, parsed, response, client, tasks, trace,
                   heard, met, op, history, spoken>>

\* omi_event of request r: _log_voice_interaction calls get_supabase_client()
\* in its try, and swallows what it raises
Logged(r) ==
    /\ conn.at[r] = "log"
    /\ \E fails \in BOOLEAN : Got(r, get_supabase_client(conn.handle, conn.made, fails), "done")
    /\ UNCHANGED <<pc, request, received, settings, parsed, response, tasks, trace,
                   heard, met, op, history, spoken>>

NextClient ==
    \E r \in Requests : Routed(r) \/ Unrouted(r) \/ Logged(r)

\* MaxRequests requests served by one event loop, in every interleaving of their
\* calls of get_supabase_client.
SpecClient == InitClient /\ [][NextClient]_vars

\* ------------------------------------------------------------------ properties
\* route_intent has returned an envelope
HasReturned == pc = "done"

\* the handler was called in this call of route_intent
HandlerCalled == \E i \in 1..Len(trace) : trace[i] = "handler"

\* the primary classifier raised and the rule-based one answered in its place
FellBack == \E i \in 1..Len(trace) : trace[i] = "raised"

\* {"error": True, "error_message": ...}
IsMarker(r) == DOMAIN r = {"error", "error_message"}

\* C1: route_intent never raises and always returns an envelope whose speech is
\* non-empty, for every event, every outcome of the primary classifier (failure,
\* or a JSON object whatever the type of its intent and entities) and every
\* outcome of the store.
RouteAlwaysAnswers ==
    /\ pc # "raised"
    /\ HasReturned => response.speech # <<>>

\* C2: whenever the data operation route_intent selected returns its own error
\* marker, the envelope has ok=true, the marker unchanged as result, and the
\* intent and entities the classifier produced.
MarkerStaysOk ==
    (HasReturned /\ HandlerCalled /\ ~op.raised /\ IsMarker(op.result)) =>
        /\ response.ok
        /\ response.result = op.result
        /\ response.intent = parsed.intent
        /\ response.entities = parsed.entities

\* a call in which the operation found no product and returned its marker
MarkerReturned ==
    /\ HasReturned /\ HandlerCalled /\ ~op.raised
    /\ IsMarker(op.result)
    /\ op.result.error_message = <<"P","r","o","d","u","c","t"," ","n","o","t"," ","f","o","u","n","d">>
    /\ response.ok

\* the envelope route_intent returns in rule-based mode for the event as received
\* and the store this call met
RulesModeAnswer ==
    LET out == parse_intent_rules(request.transcript, received)
    IN Answer(IntentV(out.intent), out.entities, Language,
              Handle(out.intent, out.entities, met.db, met.tasks, met.client,
                     met.cfault, met.fault, met.today, met.uid))

\* C3: in openai mode, whenever the primary classifier fails, route_intent
\* returns exactly the envelope rule-based mode returns for the same event and
\* the same store (ok, intent, entities, result and speech all equal).
FallbackIsTransparent ==
    (HasReturned /\ FellBack) => response = RulesModeAnswer

Count(seq, x) == Cardinality({i \in 1..Len(seq) : seq[i] = x})

\* C4: within one call nothing is retried: each classifier is invoked at most
\* once, the rule-based one in openai mode only after the primary one has
\* failed, and at most one data operation is invoked, once, only after a
\* classifier has produced an intent.
NothingRetried ==
    /\ Count(trace, "parse_intent_openai") <= 1
    /\ Count(trace, "parse_intent_rules") <= 1
    /\ Count(trace, "handler") <= 1
    /\ settings.INTENT_PROVIDER # "openai" => Count(trace, "parse_intent_openai") = 0
    /\ \A i \in 1..Len(trace) :
          (trace[i] = "parse_intent_rules" /\ settings.INTENT_PROVIDER = "openai") =>
              i = 3 /\ trace[1] = "parse_intent_openai" /\ trace[2] = "raised"
    /\ \A i \in 1..Len(trace) :
          trace[i] = "handler" =>
              /\ i = Len(trace)
              /\ i > 1
              /\ trace[i - 1] \in {"parse_intent_openai", "parse_intent_rules"}
              /\ parsed.intent.kind = "str"

\* a call that went through both classifiers and one data operation
BothClassifiersThenHandler ==
    trace = <<"parse_intent_openai", "raised", "parse_intent_rules", "handler">>

\* C5: when the classifier resolves an intent no data operation is registered
\* for, route_intent returns ok=false with the resolved intent, the
\* classifier's entities and the localized unknown-intent speech, and invokes
\* no data operation.
UnknownIntentAnswered ==
    (pc \in {"done", "raised"} /\ ~Registered(parsed.intent)) =>
        /\ HasReturned
        /\ ~response.ok
        /\ response.intent = parsed.intent
        /\ response.entities = parsed.entities
        /\ response.speech = get_translation(Language, "error_unknown_intent", NoArgs)
        /\ ~HandlerCalled
        /\ op = NoOp /\ tasks = <<>>

\* C6: each of the five data operations returns an error marker instead of
\* raising, for every failure of the store collaborator, a failure to construct
\* the store client on first use included.
OperationsNeverRaise == ~op.raised

\* the texts of the exceptions the store and the data operation raised in this call
RaisedTexts == op.caught \cup (IF op.raised THEN {op.exc} ELSE {})

\* C7: the text of an exception raised by the store or by a data operation
\* never appears in the envelope's speech.
SpeechHidesExceptions ==
    HasReturned => \A text \in RaisedTexts : ~Contains(response.speech, text)

\* C8: classification does not modify its input: the event's entities mapping
\* holds exactly the keys and values it held when the event was received.
EventEntitiesKept == request.entities = received

\* what the classifier whose answer route_intent kept extracted by itself: the
\* entities of the collaborator's reply, or what the rules read in the transcript
Extracted ==
    IF Count(trace, "parse_intent_rules") > 0
    THEN parse_intent_rules(request.transcript, EmptyDict).entities
    ELSE CASE heard.entities.kind = "object" -> heard.entities.map
           [] heard.entities.kind = "list" -> UpdateFromItems(EmptyDict, heard.entities.items).d
           [] OTHER -> EmptyDict

\* C9: in the envelope's entities every device-supplied key the classifier did
\* not extract keeps its device-supplied value, every key the classifier
\* extracted has the classifier's value, and no other key appears.
EntitiesMerged ==
    HasReturned => response.entities = Update(received, Extracted)

\* no pattern group of the rule-based classifier matches the transcript
NoGroupMatches(transcript) ==
    LET t == Lower(transcript)
    IN /\ ~AnyMatch(stock_patterns, t)
       /\ ~AnyMatch(reorder_patterns, t)
       /\ ~AnyMatch(sales_patterns, t)
       /\ ~AnyMatch(supplier_patterns, t)
       /\ ~AnyMatch(delivery_patterns, t)

\* C10: for every transcript (the empty one included) and every device entity
\* mapping the rule-based classifier returns, without raising, an intent that
\* is one of the five registered ones, and get_stock when no pattern group
\* matches.
RulesIntentCanonical ==
    pc # "classify" =>
        /\ pc = "lookup"
        /\ parsed.intent.kind = "str"
        /\ parsed.intent.name \in INTENT_HANDLERS
        /\ NoGroupMatches(request.transcript) => parsed.intent.name = "get_stock"

\* the classifier defaulted on a transcript that is not empty and had device
\* entities to carry
RulesDefaulted ==
    /\ pc = "lookup"
    /\ request.transcript # <<>>
    /\ received # EmptyDict
    /\ NoGroupMatches(request.transcript)
    /\ parsed.intent.name = "get_stock"

\* the pattern groups in the order of the source, and the intent each assigns
GroupPatterns == <<stock_patterns, reorder_patterns, sales_patterns, supplier_patterns,
                   delivery_patterns>>

GroupIntents == <<"get_stock", "create_reorder", "get_sales_summary", "get_supplier_info",
                  "get_delivery_status">>

\* the groups with a pattern that matches the transcript
MatchingGroups(transcript) ==
    {g \in 1..5 : AnyMatch(GroupPatterns[g], Lower(transcript))}

\* what group g extracts from the transcript by itself
GroupWrites(g, transcript) ==
    CASE g = 1 -> StockGroup(EmptyDict, Lower(transcript))
      [] g = 2 -> ReorderGroup(EmptyDict, Lower(transcript))
      [] g = 3 -> SalesGroup(EmptyDict, Lower(transcript))
      [] g = 4 -> SupplierGroup(EmptyDict, Lower(transcript))
      [] OTHER -> DeliveryGroup(EmptyDict, Lower(transcript))

\* the entities hold every key the mapping `writes` holds, with its value
Keeps(entities, writes) ==
    \A k \in DOMAIN writes : k \in DOMAIN entities /\ entities[k] = writes[k]

\* the intent is that of the last of the matching groups, and what each of them
\* extracts is in the entities
LastOf(matching) ==
    /\ matching # {} => parsed.intent.name = GroupIntents[Max(matching)]
    /\ \A g \in matching : Keeps(parsed.entities, GroupWrites(g, request.transcript))

\* C11: the rule-based classifier evaluates all five pattern groups in the order
\* stock, reorder, sales, supplier, delivery; the intent is that of the last
\* group with a matching pattern, and the entities extracted by earlier matching
\* groups remain in the result.
LastMatchWins ==
    pc = "lookup" => LastOf(MatchingGroups(request.transcript))

\* two groups matched, the earlier one extracted an entity, the later one set the intent
EarlierGroupOverwritten ==
    /\ pc = "lookup"
    /\ \E g \in MatchingGroups(request.transcript) :
          /\ g < Max(MatchingGroups(request.transcript))
          /\ GroupWrites(g, request.transcript) # EmptyDict
          /\ parsed.intent.name # GroupIntents[g]
          /\ DOMAIN GroupWrites(g, request.transcript) \subseteq DOMAIN parsed.entities

\* ------------------------------------------------------ what the rules extract
\* w stands in t as a word of its own
WholeWord(t, w) ==
    \E i \in 1..Len(t) :
        /\ MatchAt(t, w, i)
        /\ (i = 1 \/ ~IsWordChar(t[i - 1]))
        /\ (i + Len(w) > Len(t) \/ ~IsWordChar(t[i + Len(w)]))

\* the sizes of the vocabulary that the transcript names
NamedSizes(t) == {i \in 1..Len(SIZES) : WholeWord(t, SIZES[i])}

\* the colors of the vocabulary that the transcript contains
NamedColors(t) == {i \in 1..Len(COLORS) : Contains(t, COLORS[i])}

\* the size entity is the one size named, and there is none when none is named
\* and the device sent none
SizeAsNamed(t, named) ==
    /\ \A i \in named : named = {i} =>
          /\ "size" \in DOMAIN parsed.entities
          /\ parsed.entities["size"] = StrV(SIZES[i])
    /\ named = {} /\ "size" \notin DOMAIN received => "size" \notin DOMAIN parsed.entities

\* C21: when a transcript matches the stock or reorder pattern group and names a
\* size of the vocabulary, the size entity is that size; when it names none, no
\* size entity is produced.
SizeIsNamedSize ==
    pc = "lookup"
    /\ (AnyMatch(stock_patterns, Lower(request.transcript))
        \/ AnyMatch(reorder_patterns, Lower(request.transcript)))
        => SizeAsNamed(Lower(request.transcript), NamedSizes(Lower(request.transcript)))

\* the color entity is the one color the transcript contains
ColorAsNamed(named) ==
    \A i \in named : named = {i} =>
        /\ "color" \in DOMAIN parsed.entities
        /\ parsed.entities["color"] = StrV(COLORS[i])

\* C22: for every transcript that contains a color of the vocabulary the classifier
\* returns a color entity equal to that color, whether or not a pattern group
\* matched.
ColorAlwaysExtracted ==
    pc = "lookup" => ColorAsNamed(NamedColors(Lower(request.transcript)))

\* the transcript reads "order N units ...", N the digits n
OrderUnits(t, n) == n # <<>> /\ MatchAt(t, <<"o","r","d","e","r"," ">> \o n \o <<" ","u","n","i","t","s">>, 1)

\* C23: a transcript of the form "Order N units of ..." is classified as
\* create_reorder with quantity N.
OrderUnitsIsReorder ==
    pc = "lookup"
    /\ OrderUnits(Lower(request.transcript), FirstDigitRun(Lower(request.transcript)))
        => /\ parsed.intent.name = "create_reorder"
           /\ "quantity" \in DOMAIN parsed.entities
           /\ parsed.entities["quantity"]
                 = IntV(StrToNat(FirstDigitRun(Lower(request.transcript))))

\* C26: for a reorder transcript that contains several numbers, the quantity is
\* the last bare number of the transcript.
QuantityIsLastNumber ==
    pc = "lookup"
    /\ AnyMatch(reorder_patterns, Lower(request.transcript))
    /\ Cardinality(NumberSpans(Lower(request.transcript))) > 1
        => /\ "quantity" \in DOMAIN parsed.entities
           /\ parsed.entities["quantity"] = IntV(StrToNat(LastNumber(Lower(request.transcript))))

\* the window the code chooses: "week" or a "7" anywhere, else "month" or a "30"
\* anywhere, else "day", else the default
WindowOf(t) ==
    IF Contains(t, <<"w","e","e","k">>) \/ Contains(t, <<"7">>) THEN 7
    ELSE IF Contains(t, <<"m","o","n","t","h">>) \/ Contains(t, <<"3","0">>) THEN 30
    ELSE IF Contains(t, <<"d","a","y">>) THEN 1
    ELSE 7

\* the window by keyword alone, the first of "week", "month", "day" deciding
WindowByKeyword(t) ==
    IF Contains(t, <<"w","e","e","k">>) THEN 7
    ELSE IF Contains(t, <<"m","o","n","t","h">>) THEN 30
    ELSE IF Contains(t, <<"d","a","y">>) THEN 1
    ELSE 7

WindowIs(n) ==
    "window_days" \in DOMAIN parsed.entities /\ parsed.entities["window_days"] = IntV(n)

StoreUp == met.fault.kind # "raise" /\ ~met.cfault.fails

ReorderCalls == {i \in 1..Len(history) : history[i].intent = "create_reorder"}

\* no product of the inventory fits the locator
NoProductMatches(entities) ==
    \A i \in 1..Len(met.db.inventory) : ~InventoryMatches(entities, met.db.inventory[i])

ZeroMatchReorders ==
    {i \in ReorderCalls : StoreUp /\ NoProductMatches(history[i].entities)}

\* C12: create_reorder with a locator that matches zero products (on a store that
\* answers) returns {error: true, error_message: "Product not found"} and leaves
\* the task table as it was.
ReorderNotFound ==
    \A i \in ZeroMatchReorders :
        /\ ~history[i].op.raised
        /\ history[i].op.result = Marker(<<"P","r","o","d","u","c","t"," ","n","o","t"," ","f","o","u","n","d">>)
        /\ history[i].op.tasks = history[i].before

\* a zero-match create_reorder was called on a task table that already held a row
ZeroMatchReorderCalled == \E i \in ZeroMatchReorders : history[i].before # <<>>

\* the entity mapping holds no product id, name, category, color or size
NoLocator(entities) ==
    \A k \in {"product_id", "name", "category", "color", "size"} : k \notin DOMAIN entities

\* C13: create_reorder with an entity mapping that holds no product-locator field
\* returns an error marker and inserts no task row.
ReorderNeedsLocator ==
    \A i \in ReorderCalls :
        StoreUp /\ NoLocator(history[i].entities)
            => /\ ~history[i].op.raised
               /\ IsMarker(history[i].op.result)
               /\ history[i].op.tasks = history[i].before

\* the calls of create_reorder that returned the task they made
SuccessfulReorders ==
    {i \in ReorderCalls : ~history[i].op.raised /\ ~IsMarker(history[i].op.result)}

\* the row holds the identifier returned, the located product, the quantity asked
\* for (or the default), status "Pending", creator "System" and due = assigned + 7
RowAsSpecified(row, h) ==
    /\ row.task_id = h.op.result.task_id
    /\ row.task_id.kind = "str" /\ row.task_id.str # <<>>
    /\ row.related_product = h.op.result.product_id
    /\ "quantity" \in DOMAIN row
    /\ row.quantity = GetOr(h.entities, "quantity", IntV(DEFAULT_REORDER_QUANTITY))
    /\ row.status = StrV(<<"P","e","n","d","i","n","g">>)
    /\ row.employee_name = StrV(<<"S","y","s","t","e","m">>)
    /\ FromIso(row.due_date.str) = FromIso(row.assigned_date.str) + 7

\* C14: every successful create_reorder inserts exactly one task row, holding a
\* generated identifier, the located product, the requested quantity, status
\* "Pending", creator "System" and a due date of the assignment date plus 7 days.
ReorderRowComplete ==
    \A i \in SuccessfulReorders :
        /\ Len(history[i].op.tasks) = Len(history[i].before) + 1
        /\ SubSeq(history[i].op.tasks, 1, Len(history[i].before)) = history[i].before
        /\ RowAsSpecified(history[i].op.tasks[Len(history[i].op.tasks)], history[i])

\* C15: any two successful calls of create_reorder with identical inputs insert
\* two task rows and return two distinct task identifiers.
ReorderIdsDistinct ==
    \A i \in SuccessfulReorders : \A j \in SuccessfulReorders :
        i < j /\ history[i].entities = history[j].entities
            => /\ Len(history[j].op.tasks) >= Len(history[i].before) + 2
               /\ history[i].op.result.task_id # history[j].op.result.task_id

ReadIntents == {"get_stock", "get_sales_summary", "get_supplier_info", "get_delivery_status"}

ReadCalls == {i \in 1..Len(history) : history[i].intent \in ReadIntents}

\* two calls of one read operation with identical inputs, the store the same
\* before both
SameRead(i, j) ==
    /\ i \in ReadCalls /\ j \in ReadCalls /\ i < j
    /\ history[i].intent = history[j].intent
    /\ history[i].entities = history[j].entities
    /\ history[i].before = history[j].before

SalesCalls == {i \in 1..Len(history) : history[i].intent = "get_sales_summary"}

\* the most recent known sale date (today when no sale has a date)
KnownSaleDays ==
    {FromIso(BeforeT(met.db.sales[i].sale_date.str)) :
        i \in {k \in 1..Len(met.db.sales) :
                  /\ met.db.sales[k].sale_date.kind = "str"
                  /\ IsIsoDate(BeforeT(met.db.sales[k].sale_date.str))}}

LatestSaleDay == IF KnownSaleDays = {} THEN met.today ELSE Max(KnownSaleDays)

\* the sale lies outside the window of `days` days that ends at the latest sale day
OutsideWindow(row, days) ==
    \/ row.sale_date.kind # "str"
    \/ StrLess(row.sale_date.str, IsoFormat(LatestSaleDay - days))
    \/ StrLess(IsoFormat(LatestSaleDay), row.sale_date.str)

\* the calls with window_days=1 on a store that answers and whose sales all lie
\* outside the 1-day window
EmptyWindowCalls ==
    {i \in SalesCalls :
        /\ StoreUp
        /\ Get(history[i].entities, "window_days") = IntV(1)
        /\ \A k \in 1..Len(met.db.sales) : OutsideWindow(met.db.sales[k], 1)}

\* C17: get_sales_summary with window_days=1 on a store whose sales all lie outside
\* the 1-day window returns total_quantity 0, total_revenue 0 and
\* transaction_count 0, and no error marker.
EmptyWindowSumsToZero ==
    \A i \in EmptyWindowCalls :
        /\ ~history[i].op.raised
        /\ ~IsMarker(history[i].op.result)
        /\ history[i].op.result.total_quantity = 0
        /\ history[i].op.result.total_revenue = 0
        /\ history[i].op.result.transaction_count = 0

\* such a call was made on a store that holds sales
EmptyWindowCalled == EmptyWindowCalls # {} /\ met.db.sales # <<>>

\* the sales of the window the call used, a null cell counted as 0
WindowRows(h) ==
    SalesBetween(met.db.sales,
                 IsoFormat(LatestSaleDay
                           - GetOr(h.entities, "window_days",
                                   IntV(DEFAULT_SALES_WINDOW_DAYS)).int),
                 IsoFormat(LatestSaleDay))

\* C18: in get_sales_summary a sale row whose quantity or revenue is null counts
\* as 0 in the sums: the operation returns the totals, not an error marker,
\* whatever rows the window holds.
NullsCountAsZero ==
    \A i \in SalesCalls :
        StoreUp =>
            /\ ~history[i].op.raised
            /\ ~IsMarker(history[i].op.result)
            /\ history[i].op.result.total_quantity
                  = SumInts([k \in 1..Len(WindowRows(history[i])) |->
                                WindowRows(history[i])[k].quantity_sold.int])
            /\ history[i].op.result.total_revenue
                  = SumInts([k \in 1..Len(WindowRows(history[i])) |->
                                WindowRows(history[i])[k].revenue.int])

\* ------------------------------------------------------ generate_speech, called directly
\* C19: generate_speech is total: for every intent, every result a data operation
\* returns (stock items without name, color or size included) and every language
\* code it returns a non-empty text and does not raise.
SpeechIsTotal ==
    pc = "done" => ~spoken.out.raised /\ spoken.out.speech # <<>>

\* the event carried no language, or a code that is no key of TRANSLATIONS
LanguageUnresolved ==
    \/ spoken.language.kind = "absent"
    \/ spoken.language.kind = "str" /\ Lower(spoken.language.str) \notin KnownLanguages

\* C20: an event whose language is omitted, or is a code absent from the phrase
\* table, is answered with exactly the speech that settings.DEFAULT_LANGUAGE
\* produces for the same intent and result.
UnresolvedLanguageSpeaksDefault ==
    pc = "done" /\ LanguageUnresolved
        => spoken.out = generate_speech(parsed.intent.name, op.result,
                                        StrV(settings.DEFAULT_LANGUAGE))

\* the keys of a successful result that generate_speech reads, by intent
SpeechReads(intent) ==
    CASE intent = "get_stock" -> {"items"}
      [] intent = "create_reorder" -> {"reorder_id", "quantity", "product_name", "status"}
      [] intent = "get_sales_summary" -> {"total_quantity", "total_revenue", "window_days"}
      [] intent = "get_supplier_info" -> {"supplier_name", "lead_time_days"}
      [] intent = "get_delivery_status" -> {"status", "eta"}
      [] OTHER -> {}

SpokeOfSuccess ==
    pc = "done" /\ ~op.raised /\ "error" \notin DOMAIN op.result /\ ~spoken.out.raised

\* C29: every key generate_speech reads in a successful result is a key the data
\* operation of the intent writes, and the speech reports the data: the reorder
\* speech names the identifier of the created task, the delivery speech the status
\* of the returned order.
SpeechReadsWhatIsWritten ==
    SpokeOfSuccess =>
        /\ SpeechReads(parsed.intent.name) \subseteq DOMAIN op.result
        /\ parsed.intent.name = "create_reorder"
              => Contains(spoken.out.speech, TextOf(op.result.task_id))
        /\ parsed.intent.name = "get_delivery_status"
              => Contains(spoken.out.speech, TextOf(op.result.orders[1].status))

\* ------------------------------------------------------ the shape of results
\* r is an error marker: exactly the keys error (true) and error_message (a text);
\* or it has no error key
MarkerOrPayload(r) ==
    "error" \in DOMAIN r =>
        /\ DOMAIN r = {"error", "error_message"}
        /\ r.error = TRUE
        /\ DOMAIN r.error_message = 1..Len(r.error_message)

\* C25: every value a data operation returns is either an error marker with
\* exactly the keys error (true) and error_message (a string), or a success
\* payload without error key; none is both.
ResultsAreMarkerOrPayload ==
    HandlerCalled /\ ~op.raised => MarkerOrPayload(op.result)

\* a data operation caught an exception of the store and returned the marker made of it
CaughtMarkerReturned ==
    /\ HandlerCalled
    /\ ~op.raised
    /\ op.caught # {}
    /\ "error" \in DOMAIN op.result

\* ------------------------------------------------------ get_delivery_status, called directly
\* the orders of the book that a locator of the entities selects
OrdersOf(key) ==
    {i \in 1..Len(met.db.orders) : met.db.orders[i][key] = parsed.entities[key]}

OpenOrders ==
    {i \in 1..Len(met.db.orders) :
        met.db.orders[i].status \in {StrV(<<"P","e","n","d","i","n","g">>), StrV(<<"S","h","i","p","p","e","d">>)}}

\* entry reports the order row: its identifier, and the days until its delivery
\* date when that date is present and a date, null otherwise
Reports(entry, row) ==
    /\ entry.purchase_order_id = row.purchase_order_id
    /\ entry.status = row.status
    /\ entry.days_until_delivery.known
          = (row.delivery_date.kind = "str" /\ IsIsoDate(BeforeT(row.delivery_date.str)))
    /\ entry.days_until_delivery.known
          => entry.days_until_delivery.days
                = FromIso(BeforeT(row.delivery_date.str)) - met.today

\* no order of S that the entries leave out was placed after one they report
NoneMoreRecent(S, entries) ==
    \A i \in S :
        (\A k \in 1..Len(entries) :
            entries[k].purchase_order_id # met.db.orders[i].purchase_order_id)
        => \A k \in 1..Len(entries) :
              StrLeq(met.db.orders[i].order_date.str, entries[k].order_date.str)

\* the result reports the n most recent orders of S, latest first; the marker
\* when S is empty
MostRecentOf(S, n) ==
    IF S = {}
    THEN op.result = [error |-> TRUE, error_message |-> <<"N","o"," ","d","e","l","i","v","e","r","y"," ","i","n","f","o","r","m","a","t","i","o","n"," ","f","o","u","n","d">>]
    ELSE /\ DOMAIN op.result = {"orders"}
         /\ Len(op.result.orders) = IF Cardinality(S) < n THEN Cardinality(S) ELSE n
         /\ \A k \in 1..Len(op.result.orders) :
               \E i \in S : Reports(op.result.orders[k], met.db.orders[i])
         /\ \A k \in 1..Len(op.result.orders) : \A m \in 1..Len(op.result.orders) :
               k < m => /\ op.result.orders[k].purchase_order_id
                              # op.result.orders[m].purchase_order_id
                        /\ StrLeq(op.result.orders[m].order_date.str,
                                  op.result.orders[k].order_date.str)
         /\ NoneMoreRecent(S, op.result.orders)

\* C28: get_delivery_status selects by strict precedence: the exact match on a
\* given purchase_order_id and nothing else; else the latest order of a given
\* supplier_id; else the 5 most recent orders with status Pending or Shipped. An
\* empty selection returns the marker "No delivery information found", and an
\* order whose delivery date is absent or no date gets days_until_delivery null.
DeliveryByPrecedence ==
    pc = "done" /\ met.fault = NoFault =>
        /\ ~op.raised
        /\ IF "purchase_order_id" \in DOMAIN parsed.entities
           THEN MostRecentOf(OrdersOf("purchase_order_id"), 1)
           ELSE IF "supplier_id" \in DOMAIN parsed.entities
           THEN MostRecentOf(OrdersOf("supplier_id"), 1)
           ELSE MostRecentOf(OpenOrders, MAX_DELIVERY_ORDERS)

\* a purchase order that does not exist was asked for, together with a supplier
\* that has orders, and the marker came back
NoFallbackToSupplier ==
    /\ pc = "done" /\ met.fault = NoFault
    /\ "purchase_order_id" \in DOMAIN parsed.entities
    /\ OrdersOf("purchase_order_id") = {}
    /\ "supplier_id" \in DOMAIN parsed.entities
    /\ OrdersOf("supplier_id") # {}
    /\ "error" \in DOMAIN op.result

\* ------------------------------------------------------ the supplier question, by rules
\* the rules resolved the request to get_supplier_info, the device sent no
\* product_id, and the handler was called
RulesAskedForSupplier ==
    /\ pc = "done"
    /\ HandlerCalled
    /\ \E i \in 1..Len(trace) : trace[i] = "parse_intent_rules"
    /\ parsed.intent = IntentV("get_supplier_info")
    /\ "product_id" \notin DOMAIN received

\* C30: a request that the rules resolve to get_supplier_info, from a device that
\* sent no product_id, ends with the marker "Product ID required" and no store
\* query: the rules write the product number under sku only.
RulesSupplierNeedsProductId ==
    RulesAskedForSupplier =>
        /\ "product_id" \notin DOMAIN parsed.entities
        /\ ~op.raised
        /\ op.queries = 0
        /\ response.result = [error |-> TRUE, error_message |-> <<"P","r","o","d","u","c","t"," ","I","D"," ","r","e","q","u","i","r","e","d">>]

\* ------------------------------------------------------ the client singleton
\* the handles that calls of get_supabase_client returned
HandlesReturned == UNION {conn.got[r] : r \in DOMAIN conn.got}

\* C24 (as amended): under any interleaving of concurrent requests at most one
\* client is constructed, and every call of get_supabase_client that returns,
\* returns that client; a construction that raised left nothing behind.
OneClientPerProcess ==
    /\ conn.made <= 1
    /\ Cardinality(HandlesReturned) <= 1
    /\ HandlesReturned \subseteq {conn.handle}
    /\ conn.made = 0 <=> conn.handle = 0

\* C24 (as stated): the client constructor runs at most once, and every call
\* returns the same handle.
ConstructorRunsOnce ==
    /\ conn.runs <= 1
    /\ Cardinality(HandlesReturned) <= 1

\* two requests in flight at once were both handed the one client: the second
\* called while the first stood between its two calls
SharedAmongRequests ==
    \E r \in DOMAIN conn.got : \E q \in DOMAIN conn.got :
        /\ r # q
        /\ conn.at[r] = "log" /\ conn.at[q] = "log"
        /\ conn.got[r] = {1} /\ conn.got[q] = {1}
        /\ conn.made = 1

====
